---- MODULE Spec2Model ----
(***************************************************************************)
(* Job scheduling and cross-source reconciliation engine of the document   *)
(* processor: the document_jobs table, the polling job processor of        *)
(* JobQueueService, the stage handlers it dispatches to, and the           *)
(* validation run that enqueues the formatting stage.                      *)
(*                                                                         *)
(* Modelling conventions                                                   *)
(*  - a row of document_jobs is a record; its id is its index in jobs, and *)
(*    rows are inserted in created_at order, so the index is created_at;   *)
(*  - SQL NULL / Python None / "" are all the empty string "";             *)
(*  - every awaited database statement takes effect where it is issued     *)
(*    (writes to the job table are assumed to succeed; the fetch of        *)
(*    pending jobs may fail, see PollFetchError);                          *)
(*  - the poll loop and the per-job tasks of one asyncio.gather are        *)
(*    interleaved at their await points.                                   *)
(***************************************************************************)
EXTENDS Integers, Sequences, FiniteSets, TLC

VARIABLES
    jobs,                \* document_jobs table: Seq of job rows
    validation_results,  \* validation_results table: Seq of summary rows
    is_running,          \* JobQueueService.is_running
    loop,                \* where the job-processor task is
    batch,               \* pending_jobs[:10] of the current poll cycle (job ids)
    tasks,               \* the process_job tasks of the current gather
    semaphore,           \* value of the cycle's asyncio.Semaphore
    shutdown,            \* history: which shutdown signal was given
    cycle,               \* history: how the last poll cycle began
    retry_result,        \* last retry_failed_jobs call: argument and return value
    call_args,           \* arguments of the agent method under evaluation
    call_result,         \* <<>> until that method returns, then <<its value>>
    applications,        \* applications table: application_id -> status
    documents,           \* documents table: Seq of document rows
    pollers              \* the poll loops of further job processors

\* the state of a direct call of an agent method, outside the job processor
aux == <<call_args, call_result, applications, documents, pollers>>

vars == <<jobs, validation_results, is_running, loop, batch, tasks, semaphore,
          shutdown, cycle, retry_result, call_args, call_result, applications,
          documents, pollers>>

-----------------------------------------------------------------------------
(* Bounds of the model *)

MaxJobs == 3
BatchJobs == 11
MaxFields == 5

(* Program constants *)

MaxConcurrentJobs == 3
BatchLimit == 10
FetchLimit == 10
DefaultMaxRetries == 3
CompletionThreshold == 80
ValidationJobPriority == 3
FormattingJobPriority == 2

Apps == {"APP-1", "APP-2"}
UploadPriorities == {1}

\* orchestrator.py builds JobQueueService without a formatting_agent
formatting_agent == "None"
ErrAttribute == "'NoneType' object has no attribute 'format_application_data'"
ErrExtraction == "Data extraction failed: textract"
ErrValidation == "Data validation failed: No extracted data found"

-----------------------------------------------------------------------------
(* Helpers *)

Min(a, b) == IF a <= b THEN a ELSE b

\* json.dumps of a Python str: the text wrapped in double quotes
JsonDumps(s) == "\"" \o s \o "\""

\* Python truthiness of an Optional[str]
Truthy(s) == s # ""

-----------------------------------------------------------------------------
(* DatabaseService: the document_jobs table *)

\* create_document_job: INSERT (application_id, document_id, job_type, status,
\* priority); retry_count, max_retries and error_message take column defaults
create_document_job(js, application_id, job_type, priority) ==
    Append(js, [application_id |-> application_id,
                job_type       |-> job_type,
                status         |-> "pending",
                priority       |-> priority,
                retry_count    |-> 0,
                max_retries    |-> DefaultMaxRetries,
                error_message  |-> ""])

\* an ordering that drops the priority: ORDER BY created_at ASC
JobBeforeByCreated(js, a, b) == a < b

\* ORDER BY priority ASC, created_at ASC
JobBefore(js, a, b) ==
    \/ js[a].priority < js[b].priority
    \/ js[a].priority = js[b].priority /\ a < b

RECURSIVE OrderByPriorityCreated(_, _)
OrderByPriorityCreated(js, S) ==
    IF S = {} THEN <<>>
    ELSE LET first == CHOOSE a \in S : \A b \in S \ {a} : JobBefore(js, a, b)
         IN  <<first>> \o OrderByPriorityCreated(js, S \ {first})

\* a query that also selects failed rows: WHERE status IN ('pending', 'failed')
WherePendingOrFailed(js) ==
    {id \in DOMAIN js : js[id].status \in {"pending", "failed"}}

\* WHERE status = 'pending'
WherePending(js) == {id \in DOMAIN js : js[id].status = "pending"}

\* get_pending_jobs(limit=10): ids of the selected rows, in result order
get_pending_jobs(js) ==
    LET rows == OrderByPriorityCreated(js, WherePending(js))
    IN  SubSeq(rows, 1, Min(Len(rows), FetchLimit))

\* update_job_status: UPDATE document_jobs SET status [, error_message]
update_job_status(js, job_id, status, result_data) ==
    [js EXCEPT ![job_id].status = status,
               ![job_id].error_message =
                    IF Truthy(result_data) THEN JsonDumps(result_data) ELSE @]

-----------------------------------------------------------------------------
(* Initial state: empty tables, job processor not yet started *)

\* no agent method is being evaluated
NoCall == call_args = <<>> /\ call_result = <<>>

\* no application or document was created and no further processor started
NoUploads == applications = <<>> /\ documents = <<>> /\ pollers = <<>>

NoRetry == [called |-> FALSE, application_id |-> "", retried_jobs |-> 0]

Init ==
    /\ jobs = <<>>
    /\ validation_results = <<>>
    /\ is_running = FALSE
    /\ loop = "not_started"
    /\ batch = <<>>
    /\ tasks = <<>>
    /\ semaphore = 0
    /\ shutdown = "none"
    /\ cycle = "none"
    /\ retry_result = NoRetry
    /\ NoCall
    /\ NoUploads

-----------------------------------------------------------------------------
(* DataValidationAgent: the part of a validation run that follows the      *)
(* per-field comparison.  A run is the list of field results, one per      *)
(* application-form field, in the form's key order.                        *)

FieldResult(status, severity, flag) ==
    [validation_status |-> status, mismatch_severity |-> severity,
     flag_for_review |-> flag]

ResultValidated    == FieldResult("validated", "", FALSE)
ResultCritical     == FieldResult("mismatch", "critical", TRUE)
ResultLow          == FieldResult("mismatch", "low", FALSE)
ResultMissing      == FieldResult("missing", "medium", TRUE)

RECURSIVE Repeat(_, _)
Repeat(x, n) == IF n = 0 THEN <<>> ELSE <<x>> \o Repeat(x, n - 1)

RunOf(nValidated, nCritical, nLow, nMissing) ==
    Repeat(ResultValidated, nValidated) \o Repeat(ResultCritical, nCritical)
        \o Repeat(ResultLow, nLow) \o Repeat(ResultMissing, nMissing)

\* the runs of 1..MaxFields fields with at most one result of each
\* non-validated kind
AllRuns ==
    {r \in {RunOf(v, c, l, m) : v \in 0..MaxFields, c \in 0..1, l \in 0..1,
                                m \in 0..1} : Len(r) \in 1..MaxFields}

\* the runs the scheduler specification draws from: 4 of 5 validated with a
\* critical mismatch, and 3 of 5 validated
SampleRuns == {RunOf(4, 1, 0, 0), RunOf(3, 1, 0, 1)}

\* the counters of the per-field loop of validate_application_data
validated_fields(run) ==
    Cardinality({i \in DOMAIN run : run[i].validation_status = "validated"})
mismatch_fields(run) ==
    Cardinality({i \in DOMAIN run : run[i].validation_status = "mismatch"})
missing_fields(run) ==
    Cardinality({i \in DOMAIN run : run[i].validation_status = "missing"})
severity_count(run, sev) ==
    Cardinality({i \in DOMAIN run : run[i].mismatch_severity = sev})
flagged_count(run) ==
    Cardinality({i \in DOMAIN run : run[i].flag_for_review})

\* _calculate_validation_summary.  validation_completion_percentage is
\* validated / total * 100; it is kept as the pair it is computed from and
\* compared by cross-multiplication (the float comparison with 80 agrees with
\* the exact one for every total up to 3000).
_calculate_validation_summary(run) ==
    [total_fields       |-> Len(run),
     validated_fields   |-> validated_fields(run),
     mismatch_fields    |-> mismatch_fields(run),
     missing_fields     |-> missing_fields(run),
     flagged_for_review |-> flagged_count(run),
     critical           |-> severity_count(run, "critical"),
     high               |-> severity_count(run, "high"),
     medium             |-> severity_count(run, "medium"),
     low                |-> severity_count(run, "low")]

\* a strict threshold: validation_completion_percentage > 80
CompletionAbove(summary) ==
    summary.validated_fields * 100 > CompletionThreshold * summary.total_fields

\* validation_summary["validation_completion_percentage"] >= 80
CompletionReached(summary) ==
    summary.validated_fields * 100 >= CompletionThreshold * summary.total_fields

\* summary_result, the row stored at step 6.5 (the summary holds no
\* "flag_for_review" key, so .get("flag_for_review", False) is False)
summary_result(application_id, run) ==
    LET s == _calculate_validation_summary(run)
    IN  [application_id      |-> application_id,
         total_fields        |-> s.total_fields,
         validated_fields    |-> s.validated_fields,
         mismatched_fields   |-> s.mismatch_fields,
         missing_fields      |-> s.missing_fields,
         critical_mismatches |-> severity_count(run, "critical"),
         high_mismatches     |-> severity_count(run, "high"),
         medium_mismatches   |-> severity_count(run, "medium"),
         low_mismatches      |-> severity_count(run, "low"),
         flagged_for_review  |-> s.flagged_for_review,
         flag_for_review     |-> FALSE]

\* steps 6.5 and 7 of validate_application_data on the two tables
ValidationEffects(js, vr, application_id, run) ==
    [validation_results |-> Append(vr, summary_result(application_id, run)),
     jobs |-> IF CompletionReached(_calculate_validation_summary(run))
              THEN create_document_job(js, application_id, "formatting",
                                       FormattingJobPriority)
              ELSE js]

-----------------------------------------------------------------------------
(* JobQueueService: the job processor                                      *)
(*                                                                         *)
(* loop: "not_started", then one of the await points of the processor task *)
(*   "fetch"  awaiting get_pending_jobs in _process_job_queue              *)
(*   "gather" awaiting asyncio.gather of the process_job tasks             *)
(*   "sleep"  awaiting asyncio.sleep(5)                                    *)
(* and finally "stopped" (the while loop ended) or "cancelled".            *)
(* tasks[i] is the process_job task of batch[i]:                           *)
(*   "waiting"   on the semaphore                                          *)
(*   "running"   job claimed, awaiting the stage handler                   *)
(*   "returned"  handler returned or raised, status update not yet issued  *)
(*   "done"      process_job finished                                      *)
(*   "cancelled" cancelled while waiting, "aborted" cancelled in flight    *)

Task(st, kind, success, error) ==
    [st |-> st, kind |-> kind, success |-> success, error |-> error]

InFlight(t) == t.st \in {"running", "returned"}

\* lifespan startup: create_task(orchestrator.start_job_processor())
StartJobProcessor ==
    /\ loop = "not_started"
    /\ ~is_running
    /\ is_running' = TRUE
    /\ loop' = "fetch"
    /\ UNCHANGED <<jobs, validation_results, batch, tasks, semaphore, shutdown,
                   retry_result, cycle>>
    /\ UNCHANGED aux

\* a fetch error that escapes and ends the processor
PollFetchErrorEndsLoop ==
    /\ loop = "fetch"
    /\ loop' = "stopped"
    /\ is_running' = FALSE
    /\ cycle' = "fetch_error"
    /\ UNCHANGED <<jobs, validation_results, batch, tasks, semaphore,
                   shutdown, retry_result>>
    /\ UNCHANGED aux

\* _process_job_queue: get_pending_jobs raises, the cycle returns
PollFetchError ==
    /\ loop = "fetch"
    /\ loop' = "sleep"
    /\ cycle' = "fetch_error"
    /\ UNCHANGED <<jobs, validation_results, is_running, batch, tasks, semaphore,
                   shutdown, retry_result>>
    /\ UNCHANGED aux

\* _process_job_queue: no pending job, the cycle returns
PollEmpty ==
    /\ loop = "fetch"
    /\ get_pending_jobs(jobs) = <<>>
    /\ loop' = "sleep"
    /\ cycle' = "empty"
    /\ UNCHANGED <<jobs, validation_results, is_running, batch, tasks, semaphore,
                   shutdown, retry_result>>
    /\ UNCHANGED aux

\* _process_job_queue: a new Semaphore(3), one process_job task per job of
\* pending_jobs[:10], then gather
PollBatch ==
    /\ loop = "fetch"
    /\ LET pending_jobs == get_pending_jobs(jobs)
       IN  /\ pending_jobs # <<>>
           /\ batch' = SubSeq(pending_jobs, 1, Min(Len(pending_jobs), BatchLimit))
    /\ tasks' = [i \in DOMAIN batch' |-> Task("waiting", "none", FALSE, "")]
    /\ semaphore' = MaxConcurrentJobs
    /\ loop' = "gather"
    /\ cycle' = "batch"
    /\ UNCHANGED <<jobs, validation_results, is_running, shutdown, retry_result>>
    /\ UNCHANGED aux

\* a cycle without the gate: every task goes straight to _process_single_job
ClaimJobUngated(i) ==
    /\ loop = "gather"
    /\ i \in DOMAIN tasks
    /\ tasks[i].st = "waiting"
    /\ \A k \in 1..(i - 1) : tasks[k].st # "waiting"
    /\ semaphore' = semaphore - 1
    /\ jobs' = [jobs EXCEPT ![batch[i]].status = "processing"]
    /\ tasks' = [tasks EXCEPT ![i].st = "running"]
    /\ UNCHANGED <<validation_results, is_running, loop, batch, shutdown,
                   retry_result, cycle>>
    /\ UNCHANGED aux

\* process_job: the task at the head of the semaphore's FIFO acquires it and
\* _process_single_job sets the job to processing and calls the stage handler
ClaimJob(i) ==
    /\ loop = "gather"
    /\ i \in DOMAIN tasks
    /\ tasks[i].st = "waiting"
    /\ semaphore > 0
    /\ \A k \in 1..(i - 1) : tasks[k].st # "waiting"
    /\ semaphore' = semaphore - 1
    /\ jobs' = update_job_status(jobs, batch[i], "processing", "")
    /\ tasks' = [tasks EXCEPT ![i].st = "running"]
    /\ UNCHANGED <<validation_results, is_running, loop, batch, shutdown,
                   retry_result, cycle>>
    /\ UNCHANGED aux

\* an extraction handler that creates the validation job before it knows
\* its outcome
ExtractionEnqueuesAlways(i, outcome) ==
    /\ loop = "gather"
    /\ i \in DOMAIN tasks
    /\ tasks[i].st = "running"
    /\ jobs[batch[i]].job_type = "extraction"
    /\ Len(jobs) < MaxJobs
    /\ jobs' = create_document_job(jobs, jobs[batch[i]].application_id,
                                   "validation", ValidationJobPriority)
    /\ tasks' = [tasks EXCEPT
                   ![i] = IF outcome = "success"
                          THEN Task("returned", "result", TRUE, "")
                          ELSE Task("returned", "result", FALSE, ErrExtraction)]
    /\ UNCHANGED <<validation_results, is_running, loop, batch, semaphore,
                   shutdown, retry_result, cycle>>
    /\ UNCHANGED aux

\* extraction_agent.extract_document_data ends: success (after it created the
\* validation job), a failure result, or an exception that the inner
\* try/except turns into a failure result
ExtractionReturns(i, outcome) ==
    /\ loop = "gather"
    /\ i \in DOMAIN tasks
    /\ tasks[i].st = "running"
    /\ jobs[batch[i]].job_type = "extraction"
    /\ \/ /\ outcome = "success"
          /\ Len(jobs) < MaxJobs
          /\ jobs' = create_document_job(jobs, jobs[batch[i]].application_id,
                                         "validation", ValidationJobPriority)
          /\ tasks' = [tasks EXCEPT ![i] = Task("returned", "result", TRUE, "")]
       \/ /\ outcome \in {"failure", "raise"}
          /\ jobs' = jobs
          /\ tasks' = [tasks EXCEPT
                         ![i] = Task("returned", "result", FALSE, ErrExtraction)]
    /\ UNCHANGED <<validation_results, is_running, loop, batch, semaphore,
                   shutdown, retry_result, cycle>>
    /\ UNCHANGED aux

\* validation_agent.validate_application_data ends with success: the summary
\* row is stored and the formatting job is created when completion >= 80
ValidationRunSucceeds(i, run) ==
    /\ loop = "gather"
    /\ i \in DOMAIN tasks
    /\ tasks[i].st = "running"
    /\ jobs[batch[i]].job_type = "validation"
    /\ LET eff == ValidationEffects(jobs, validation_results,
                                    jobs[batch[i]].application_id, run)
       IN  /\ Len(eff.jobs) <= MaxJobs \/ Len(eff.jobs) = Len(jobs)
           /\ jobs' = eff.jobs
           /\ validation_results' = eff.validation_results
    /\ tasks' = [tasks EXCEPT ![i] = Task("returned", "result", TRUE, "")]
    /\ UNCHANGED <<is_running, loop, batch, semaphore, shutdown, retry_result, cycle>>
    /\ UNCHANGED aux

\* validate_application_data catches its own exception (no form data, no
\* extracted data) and returns a failure result
ValidationRunFails(i) ==
    /\ loop = "gather"
    /\ i \in DOMAIN tasks
    /\ tasks[i].st = "running"
    /\ jobs[batch[i]].job_type = "validation"
    /\ tasks' = [tasks EXCEPT
                   ![i] = Task("returned", "result", FALSE, ErrValidation)]
    /\ UNCHANGED <<jobs, validation_results, is_running, loop, batch, semaphore,
                   shutdown, retry_result, cycle>>
    /\ UNCHANGED aux

\* self.formatting_agent.format_application_data: the agent is None, the
\* attribute access raises AttributeError inside the outer try
FormattingRaises(i) ==
    /\ loop = "gather"
    /\ i \in DOMAIN tasks
    /\ tasks[i].st = "running"
    /\ jobs[batch[i]].job_type = "formatting"
    /\ formatting_agent = "None"
    /\ tasks' = [tasks EXCEPT
                   ![i] = Task("returned", "raised", FALSE, ErrAttribute)]
    /\ UNCHANGED <<jobs, validation_results, is_running, loop, batch, semaphore,
                   shutdown, retry_result, cycle>>
    /\ UNCHANGED aux

\* a tail that tests the result object instead of its success flag
OutcomeStatusAnyResult(t) ==
    IF t.kind = "result" THEN "completed" ELSE "failed"

\* the status the tail of _process_single_job persists for a handler outcome
OutcomeStatus(t) ==
    IF t.kind = "result" /\ t.success THEN "completed" ELSE "failed"

\* result.get("error") / str(e), nothing on success
OutcomeError(t) == IF t.kind = "result" /\ t.success THEN "" ELSE t.error

\* _process_single_job after the handler: update_job_status(completed) on
\* success, update_job_status(failed, error) otherwise; then process_job
\* releases the semaphore
FinishJob(i) ==
    /\ loop = "gather"
    /\ i \in DOMAIN tasks
    /\ tasks[i].st = "returned"
    /\ jobs' = update_job_status(jobs, batch[i], OutcomeStatus(tasks[i]),
                                 OutcomeError(tasks[i]))
    /\ semaphore' = semaphore + 1
    /\ tasks' = [tasks EXCEPT ![i].st = "done"]
    /\ UNCHANGED <<validation_results, is_running, loop, batch, shutdown,
                   retry_result, cycle>>
    /\ UNCHANGED aux

\* a cycle that does not wait for its tasks before it goes to sleep(5)
GatherWithoutWaiting ==
    /\ loop = "gather"
    /\ loop' = "sleep"
    /\ batch' = <<>>
    /\ tasks' = <<>>
    /\ semaphore' = 0
    /\ UNCHANGED <<jobs, validation_results, is_running, shutdown, retry_result, cycle>>
    /\ UNCHANGED aux

\* gather returns once every task is done; the loop goes to sleep(5)
GatherDone ==
    /\ loop = "gather"
    /\ \A i \in DOMAIN tasks : tasks[i].st = "done"
    /\ loop' = "sleep"
    /\ batch' = <<>>
    /\ tasks' = <<>>
    /\ semaphore' = 0
    /\ UNCHANGED <<jobs, validation_results, is_running, shutdown, retry_result, cycle>>
    /\ UNCHANGED aux

\* sleep(5) is over: `while self.is_running` starts the next cycle or ends
\* the loop (finally: is_running = False)
WakeUp ==
    /\ loop = "sleep"
    /\ IF is_running THEN loop' = "fetch" ELSE loop' = "stopped"
    /\ is_running' = is_running
    /\ UNCHANGED <<jobs, validation_results, batch, tasks, semaphore, shutdown,
                   retry_result, cycle>>
    /\ UNCHANGED aux

\* stop_job_processor
StopJobProcessor ==
    /\ loop \in {"fetch", "gather", "sleep"}
    /\ shutdown = "none"
    /\ is_running' = FALSE
    /\ shutdown' = "stop"
    /\ UNCHANGED <<jobs, validation_results, loop, batch, tasks, semaphore,
                   retry_result, cycle>>
    /\ UNCHANGED aux

\* lifespan cleanup: job_processor_task.cancel().  CancelledError is raised at
\* the await the task is suspended in; it is not an Exception, so no handler
\* of the service catches it; gather cancels its children.
CancelJobProcessor ==
    /\ loop \in {"fetch", "gather", "sleep"}
    /\ loop' = "cancelled"
    /\ is_running' = FALSE
    /\ shutdown' = "cancel"
    /\ tasks' = [i \in DOMAIN tasks |->
                    IF tasks[i].st = "waiting"
                    THEN [tasks[i] EXCEPT !.st = "cancelled"]
                    ELSE IF InFlight(tasks[i])
                         THEN [tasks[i] EXCEPT !.st = "aborted"]
                         ELSE tasks[i]]
    /\ UNCHANGED <<jobs, validation_results, batch, semaphore, retry_result, cycle>>
    /\ UNCHANGED aux

-----------------------------------------------------------------------------
(* JobQueueService: queue management *)

\* add_extraction_job
add_extraction_job(application_id, priority) ==
    /\ loop # "cancelled"
    /\ Len(jobs) < MaxJobs
    /\ jobs' = create_document_job(jobs, application_id, "extraction", priority)
    /\ UNCHANGED <<validation_results, is_running, loop, batch, tasks, semaphore,
                   shutdown, retry_result, cycle>>
    /\ UNCHANGED aux

\* retry_failed_jobs: failed_jobs is what get_pending_jobs returns, filtered
\* on status == "failed" and, when given, on the application
failed_jobs(js, application_id) ==
    SelectSeq(get_pending_jobs(js),
              LAMBDA id : /\ js[id].status = "failed"
                          /\ (Truthy(application_id) =>
                                js[id].application_id = application_id))

\* the jobs the loop of retry_failed_jobs resets
RetrySet(js, application_id) ==
    {id \in {failed_jobs(js, application_id)[k] :
                k \in DOMAIN failed_jobs(js, application_id)} :
        js[id].retry_count < js[id].max_retries}

retry_failed_jobs(application_id) ==
    /\ loop # "cancelled"
    /\ jobs' = [id \in DOMAIN jobs |->
                  IF id \in RetrySet(jobs, application_id)
                  THEN update_job_status(jobs, id, "pending", "")[id]
                  ELSE jobs[id]]
    /\ retry_result' = [called |-> TRUE, application_id |-> application_id,
                        retried_jobs |-> Cardinality(RetrySet(jobs, application_id))]
    /\ UNCHANGED <<validation_results, is_running, loop, batch, tasks, semaphore,
                   shutdown, cycle>>
    /\ UNCHANGED aux

-----------------------------------------------------------------------------
(* The service as main.py runs it: one job processor, started once *)

Next ==
    \/ StartJobProcessor
    \/ PollFetchError
    \/ PollEmpty
    \/ PollBatch
    \/ \E i \in 1..BatchLimit : ClaimJob(i)
    \/ \E i \in 1..BatchLimit, o \in {"success", "failure", "raise"} :
            ExtractionReturns(i, o)
    \/ \E i \in 1..BatchLimit, run \in SampleRuns : ValidationRunSucceeds(i, run)
    \/ \E i \in 1..BatchLimit : ValidationRunFails(i)
    \/ \E i \in 1..BatchLimit : FormattingRaises(i)
    \/ \E i \in 1..BatchLimit : FinishJob(i)
    \/ GatherDone
    \/ WakeUp
    \/ StopJobProcessor
    \/ CancelJobProcessor
    \/ \E a \in Apps, p \in UploadPriorities : add_extraction_job(a, p)
    \/ \E a \in Apps \cup {""} : retry_failed_jobs(a)

Spec == Init /\ [][Next]_vars

-----------------------------------------------------------------------------
(* A full queue: the processor starts on a table of BatchJobs pending jobs *)
(* of mixed stages and priorities, more than one poll cycle can take.      *)

BatchKinds ==
    << [job_type |-> "extraction", priority |-> 6],
       [job_type |-> "formatting", priority |-> FormattingJobPriority],
       [job_type |-> "extraction", priority |-> 1],
       [job_type |-> "validation", priority |-> ValidationJobPriority],
       [job_type |-> "extraction", priority |-> 3] >>

BatchSeeds == {1, 2, 3}

BatchTable(seed) ==
    [k \in 1..BatchJobs |->
        LET kind == BatchKinds[((k * seed) % Len(BatchKinds)) + 1]
            row  == create_document_job(<<>>, IF k % 2 = 0 THEN "APP-2" ELSE "APP-1",
                                        kind.job_type, kind.priority)[1]
        IN  row]

InitBatch ==
    /\ \E seed \in BatchSeeds : jobs = BatchTable(seed)
    /\ validation_results = <<>>
    /\ is_running = FALSE
    /\ loop = "not_started"
    /\ batch = <<>>
    /\ tasks = <<>>
    /\ semaphore = 0
    /\ shutdown = "none"
    /\ cycle = "none"
    /\ retry_result = NoRetry
    /\ NoCall
    /\ NoUploads

NextBatch ==
    \/ StartJobProcessor
    \/ PollFetchError
    \/ PollEmpty
    \/ PollBatch
    \/ \E i \in 1..BatchLimit : ClaimJob(i)
    \/ \E i \in 1..BatchLimit, o \in {"success", "failure", "raise"} :
            ExtractionReturns(i, o)
    \/ \E i \in 1..BatchLimit, run \in SampleRuns : ValidationRunSucceeds(i, run)
    \/ \E i \in 1..BatchLimit : ValidationRunFails(i)
    \/ \E i \in 1..BatchLimit : FormattingRaises(i)
    \/ \E i \in 1..BatchLimit : FinishJob(i)
    \/ GatherDone
    \/ WakeUp
    \/ StopJobProcessor
    \/ CancelJobProcessor

SpecBatch == InitBatch /\ [][NextBatch]_vars

-----------------------------------------------------------------------------
(* Validation runs: the processor starts on a table that holds the          *)
(* validation job of an application, and the run is any run of AllRuns.     *)

InitValidation ==
    /\ \E a \in Apps :
          jobs = create_document_job(<<>>, a, "validation", ValidationJobPriority)
    /\ validation_results = <<>>
    /\ is_running = FALSE
    /\ loop = "not_started"
    /\ batch = <<>>
    /\ tasks = <<>>
    /\ semaphore = 0
    /\ shutdown = "none"
    /\ cycle = "none"
    /\ retry_result = NoRetry
    /\ NoCall
    /\ NoUploads

NextValidation ==
    \/ StartJobProcessor
    \/ PollFetchError
    \/ PollEmpty
    \/ PollBatch
    \/ \E i \in 1..BatchLimit : ClaimJob(i)
    \/ \E i \in 1..BatchLimit, run \in AllRuns : ValidationRunSucceeds(i, run)
    \/ \E i \in 1..BatchLimit : ValidationRunFails(i)
    \/ \E i \in 1..BatchLimit : FormattingRaises(i)
    \/ \E i \in 1..BatchLimit : FinishJob(i)
    \/ GatherDone
    \/ WakeUp

SpecValidation == InitValidation /\ [][NextValidation]_vars

-----------------------------------------------------------------------------
(* Direct evaluation of one agent method: the arguments are drawn in the    *)
(* initial state, the job processor stays idle, and the one action is the   *)
(* call.  Confidence scores, similarities and tolerances are in hundredths  *)
(* (0.8 is 80); Python's None is the string "None", as a score NoneScore.   *)

procVars == <<jobs, validation_results, is_running, loop, batch, tasks,
              semaphore, shutdown, cycle, retry_result, applications, documents,
              pollers>>

\* the tables are empty and no processor was started
ProcessorIdle ==
    /\ jobs = <<>>
    /\ validation_results = <<>>
    /\ is_running = FALSE
    /\ loop = "not_started"
    /\ batch = <<>>
    /\ tasks = <<>>
    /\ semaphore = 0
    /\ shutdown = "none"
    /\ cycle = "none"
    /\ retry_result = NoRetry
    /\ NoUploads

-----------------------------------------------------------------------------
(* DataFormattingAgent._determine_best_value *)

\* validation_result["confidence_score"] is None
NoneScore == -1

Best(value, data_source, confidence_score) ==
    [value |-> value, data_source |-> data_source,
     confidence_score |-> confidence_score]

\* a document confidence that is preferred from 0.8 on
HighConfidenceInclusive(confidence_score) == confidence_score >= 80

\* elif confidence_score > 0.8
HighConfidence(confidence_score) == confidence_score > 80

\* the except branch: any exception gives the form value at 0.5
_determine_best_value(app_value, validation_result) ==
    LET validation_status == validation_result.validation_status
        doc_value         == validation_result.document_value
        confidence_score  == validation_result.confidence_score
        mismatch_severity == validation_result.mismatch_severity
    IN  IF validation_status = "validated"
        THEN IF doc_value \notin {"None", ""}
             THEN Best(doc_value, "document_extraction", confidence_score)
             ELSE Best(app_value, "application_form", 90)
        ELSE IF validation_status = "mismatch"
        THEN IF mismatch_severity = "critical"
             THEN Best(app_value, "application_form", 70)
             ELSE IF mismatch_severity = "high"
             THEN Best(app_value, "application_form", 60)
             ELSE IF confidence_score = NoneScore
             THEN Best(app_value, "application_form", 50)  \* TypeError, caught
             ELSE IF HighConfidence(confidence_score)
             THEN Best(doc_value, "document_extraction", confidence_score)
             ELSE Best(app_value, "application_form", 50)
        ELSE IF validation_status = "missing"
        THEN Best(app_value, "application_form", 80)
        ELSE Best(app_value, "application_form", 50)

Confidences == {NoneScore, 0, 50, 79, 80, 81, 95, 100}
Severities == {"critical", "high", "medium", "low", "None"}

\* validation results as the resolver reads them
ResolverInputs ==
    [app_value : {"APP"},
     validation_result :
        [validation_status : {"validated", "mismatch", "missing", "pending"},
         document_value : {"DOC", "None", ""},
         confidence_score : Confidences,
         mismatch_severity : Severities]]

InitResolver ==
    /\ ProcessorIdle
    /\ call_args \in ResolverInputs
    /\ call_result = <<>>

DetermineBestValue ==
    /\ call_result = <<>>
    /\ call_args \in ResolverInputs
    /\ call_result' = <<_determine_best_value(call_args.app_value,
                                              call_args.validation_result)>>
    /\ UNCHANGED <<procVars, call_args>>

SpecResolver == InitResolver /\ [][DetermineBestValue]_vars

-----------------------------------------------------------------------------
(* DataValidationAgent: the comparators.  A value is the sequence of its    *)
(* characters; amounts are in cents, percentage differences are compared    *)
(* as cross-multiplied integers: d > t/100 iff diff * 100 > t * max.        *)

Digit == [c \in {"0", "1", "2", "3", "4", "5", "6", "7", "8", "9"} |->
            CASE c = "0" -> 0 [] c = "1" -> 1 [] c = "2" -> 2 [] c = "3" -> 3
              [] c = "4" -> 4 [] c = "5" -> 5 [] c = "6" -> 6 [] c = "7" -> 7
              [] c = "8" -> 8 [] c = "9" -> 9]

IsDigits(s) == \A i \in DOMAIN s : s[i] \in DOMAIN Digit

\* int() of a sequence of digits
RECURSIVE ToNat(_)
ToNat(s) ==
    IF s = <<>> THEN 0
    ELSE ToNat(SubSeq(s, 1, Len(s) - 1)) * 10 + Digit[s[Len(s)]]

Abs(x) == IF x < 0 THEN -x ELSE x
Max(x, y) == IF x >= y THEN x ELSE y

\* a comparator's return value; None is "None", a None discrepancy NoneScore;
\* discrepancy_percentage is kept in hundredths of a percent
Comparison(validation_status, mismatch_type, mismatch_severity, discrepancy_percentage, flag_for_review) ==
    [validation_status |-> validation_status,
     mismatch_type |-> mismatch_type,
     mismatch_severity |-> mismatch_severity,
     discrepancy_percentage |-> discrepancy_percentage,
     flag_for_review |-> flag_for_review]

\* percentage_diff * 100, in hundredths of a percent (rounded down)
DiscrepancyPercentage(diff, max_amount) ==
    ((diff * 100) \div max_amount) * 100
        + (((diff * 100) % max_amount) * 100) \div max_amount

\* an error record that names the comparison instead of the validation
ComparisonError ==
    Comparison("mismatch", "comparison_error", "critical", NoneScore, TRUE)

\* the except branch of a comparator
ValidationError ==
    Comparison("mismatch", "validation_error", "critical", NoneScore, TRUE)

\* re.sub(r'[^\d.-]', '', value)
StripNonNumeric(value) ==
    SelectSeq(value, LAMBDA c : c \in DOMAIN Digit \cup {".", "-"})

\* float(cleaned) on a text of digits, "." and "-": [ok, cents].  ValueError
\* is ok = FALSE.  Digits after the second decimal are not kept.
ParseFloat(cleaned) ==
    LET negative == cleaned # <<>> /\ cleaned[1] = "-"
        body     == IF negative THEN Tail(cleaned) ELSE cleaned
        dots     == {i \in DOMAIN body : body[i] = "."}
        dot      == IF dots = {} THEN Len(body) + 1 ELSE CHOOSE i \in dots : TRUE
        whole    == SubSeq(body, 1, dot - 1)
        frac     == SubSeq(body, dot + 1, Len(body))
        frac2    == SubSeq(frac \o <<"0", "0">>, 1, 2)
        ok       == /\ Cardinality(dots) <= 1
                    /\ IsDigits(whole) /\ IsDigits(frac)
                    /\ Len(whole) + Len(frac) >= 1
        cents    == ToNat(whole) * 100 + ToNat(frac2)
    IN  IF ok THEN [ok |-> TRUE, cents |-> IF negative THEN -cents ELSE cents]
        ELSE [ok |-> FALSE, cents |-> 0]

\* _parse_currency and _parse_number are the same code
_parse_currency(value) ==
    IF value = <<>> THEN [ok |-> FALSE, cents |-> 0]
    ELSE LET cleaned == StripNonNumeric(value)
         IN  IF cleaned = <<>> THEN [ok |-> FALSE, cents |-> 0]
             ELSE ParseFloat(cleaned)

_parse_number(value) == _parse_currency(value)

\* the bands of _get_number_mismatch_severity applied to a currency field
CurrencySeverityNumberBands(diff, max_amount) ==
    IF diff * 100 > 15 * max_amount THEN "critical"
    ELSE IF diff * 100 > 8 * max_amount THEN "high"
    ELSE IF diff * 100 > 3 * max_amount THEN "medium"
    ELSE "low"

\* percentage_diff = diff / max_amount
_get_currency_mismatch_severity(diff, max_amount) ==
    IF diff * 100 > 20 * max_amount THEN "critical"
    ELSE IF diff * 100 > 10 * max_amount THEN "high"
    ELSE IF diff * 100 > 5 * max_amount THEN "medium"
    ELSE "low"

_get_number_mismatch_severity(diff, max_num) ==
    IF diff * 100 > 15 * max_num THEN "critical"
    ELSE IF diff * 100 > 8 * max_num THEN "high"
    ELSE IF diff * 100 > 3 * max_num THEN "medium"
    ELSE "low"

\* a tolerance of "exact" is ExactTolerance: comparing a float with the str
\* raises TypeError
ExactTolerance == -1

_validate_currency(app_value, doc_value, tolerance) ==
    LET app_amount == _parse_currency(app_value)
        doc_amount == _parse_currency(doc_value)
        max_amount == Max(Abs(app_amount.cents), Abs(doc_amount.cents))
        diff       == Abs(app_amount.cents - doc_amount.cents)
        severity   == _get_currency_mismatch_severity(diff, max_amount)
    IN  IF ~app_amount.ok \/ ~doc_amount.ok
        THEN Comparison("mismatch", "format_difference", "medium", NoneScore, TRUE)
        ELSE IF app_amount.cents = 0 /\ doc_amount.cents = 0
        THEN Comparison("validated", "None", "None", 0, FALSE)
        ELSE IF tolerance = ExactTolerance
        THEN ValidationError
        ELSE IF diff * 100 <= tolerance * max_amount
        THEN Comparison("validated", "None", "None",
                        DiscrepancyPercentage(diff, max_amount), FALSE)
        ELSE Comparison("mismatch", "value_difference", severity,
                        DiscrepancyPercentage(diff, max_amount),
                        severity \in {"critical", "high"})

_validate_number(app_value, doc_value, tolerance) ==
    LET app_num  == _parse_number(app_value)
        doc_num  == _parse_number(doc_value)
        max_num  == Max(Abs(app_num.cents), Abs(doc_num.cents))
        diff     == Abs(app_num.cents - doc_num.cents)
        severity == _get_number_mismatch_severity(diff, max_num)
    IN  IF ~app_num.ok \/ ~doc_num.ok
        THEN Comparison("mismatch", "format_difference", "medium", NoneScore, TRUE)
        ELSE IF app_num.cents = doc_num.cents
        THEN Comparison("validated", "None", "None", 0, FALSE)
        ELSE IF max_num = 0
        THEN Comparison("validated", "None", "None", 0, FALSE)
        ELSE IF tolerance = ExactTolerance
        THEN ValidationError
        ELSE IF diff * 100 <= tolerance * max_num
        THEN Comparison("validated", "None", "None",
                        DiscrepancyPercentage(diff, max_num), FALSE)
        ELSE Comparison("mismatch", "value_difference", severity,
                        DiscrepancyPercentage(diff, max_num),
                        severity \in {"critical", "high"})

-----------------------------------------------------------------------------
(* DataValidationAgent: normalization and _compare_values *)

\* str.strip() for blanks
RECURSIVE StripSpaces(_)
StripSpaces(value) ==
    IF value = <<>> THEN <<>>
    ELSE IF Head(value) = " " THEN StripSpaces(Tail(value))
    ELSE IF value[Len(value)] = " " THEN StripSpaces(SubSeq(value, 1, Len(value) - 1))
    ELSE value

\* str.zfill(2)
zfill2(s) == IF Len(s) < 2 THEN <<"0">> \o s ELSE s

\* the match of (\d{a})<sep>(\d{1,2})<sep>(\d{b}) that starts at i with a
\* first group of l1 and a second group of l2 characters
DateMatchAt(s, i, l1, l2, l3, sep) ==
    LET e1 == i + l1
        e2 == e1 + 1 + l2
    IN  /\ e2 + l3 <= Len(s)
        /\ IsDigits(SubSeq(s, i, e1 - 1))
        /\ s[e1] = sep
        /\ IsDigits(SubSeq(s, e1 + 1, e2 - 1))
        /\ s[e2] = sep
        /\ IsDigits(SubSeq(s, e2 + 1, e2 + l3))

DateGroups(s, i, l1, l2, l3) ==
    <<SubSeq(s, i, i + l1 - 1),
      SubSeq(s, i + l1 + 1, i + l1 + l2),
      SubSeq(s, i + l1 + l2 + 2, i + l1 + l2 + 1 + l3)>>

\* re.search of one date pattern: the leftmost match, each \d{1,2} greedy.
\* L1, L3 are the lengths the first and third group may have, longest first.
SearchDate(s, L1, L3, sep) ==
    LET Shapes == {<<i, k1, k2, k3>> \in
                      (1..Len(s)) \X (1..Len(L1)) \X (1..2) \X (1..Len(L3)) :
                      DateMatchAt(s, i, L1[k1], 3 - k2, L3[k3], sep)}
        Before(x, y) ==
            \/ x[1] < y[1]
            \/ x[1] = y[1] /\ x[2] < y[2]
            \/ x[1] = y[1] /\ x[2] = y[2] /\ x[3] < y[3]
            \/ x[1] = y[1] /\ x[2] = y[2] /\ x[3] = y[3] /\ x[4] <= y[4]
    IN  IF Shapes = {} THEN <<>>
        ELSE LET m == CHOOSE x \in Shapes : \A y \in Shapes : Before(x, y)
             IN  DateGroups(s, m[1], L1[m[2]], 3 - m[3], L3[m[4]])

\* the reading of an ambiguous D/M date as day first
DayFirst(groups) ==
    groups[3] \o <<"-">> \o zfill2(groups[2]) \o <<"-">> \o zfill2(groups[1])

\* the branch taken when the first group is no year
DayOrMonthFirst(groups) ==
    IF ToNat(groups[1]) > 12
    THEN groups[3] \o <<"-">> \o zfill2(groups[2]) \o <<"-">> \o zfill2(groups[1])
    ELSE groups[3] \o <<"-">> \o zfill2(groups[1]) \o <<"-">> \o zfill2(groups[2])

FormatDate(groups) ==
    IF Len(groups[1]) = 4
    THEN groups[1] \o <<"-">> \o zfill2(groups[2]) \o <<"-">> \o zfill2(groups[3])
    ELSE DayOrMonthFirst(groups)

\* _normalize_date: the three patterns in order, the first that matches
_normalize_date(date_str) ==
    LET slash  == SearchDate(date_str, <<2, 1>>, <<4>>, "/")
        iso    == SearchDate(date_str, <<4>>, <<2, 1>>, "-")
        dashed == SearchDate(date_str, <<2, 1>>, <<4>>, "-")
    IN  IF slash # <<>> THEN FormatDate(slash)
        ELSE IF iso # <<>> THEN FormatDate(iso)
        ELSE IF dashed # <<>> THEN FormatDate(dashed)
        ELSE date_str

\* _normalize_value.  Text values are kept as they are: their comparison is
\* by the SequenceMatcher ratio, which the model takes as given.
_normalize_value(value, value_type) ==
    IF value = <<>> THEN <<>>
    ELSE LET normalized == StripSpaces(value)
         IN  IF value_type \in {"currency", "number"} THEN StripNonNumeric(normalized)
             ELSE IF value_type = "date" THEN _normalize_date(normalized)
             ELSE normalized

AmountTexts ==
    {<<"1", "0", "0">>,
     <<"9", "7">>,
     <<"9", "6">>,
     <<"9", "5">>,
     <<"9", "4">>,
     <<"9", "2">>,
     <<"9", "1">>,
     <<"9", "0">>,
     <<"8", "9">>,
     <<"8", "5">>,
     <<"8", "4">>,
     <<"8", "0">>,
     <<"7", "9">>,
     <<"0">>,
     <<"$", "0", ".", "0", "0">>,
     <<>>,
     <<"N", "/", "A">>,
     <<"1", ".", "2", ".", "3">>,
     <<"$", "5", "2", ",", "0", "0", "0", ".", "0", "0">>,
     <<"5", "0", "0", "0", "0">>,
     <<"-", "1", "0", "0">>,
     <<" ", "9", "5", " ">>}

DateTexts ==
    {<<"1", "9", "9", "0", "-", "0", "1", "-", "0", "1">>,
     <<"0", "1", "/", "0", "2", "/", "1", "9", "9", "0">>,
     <<"0", "1", "/", "0", "1", "/", "1", "9", "9", "0">>,
     <<"1", "3", "/", "0", "1", "/", "1", "9", "9", "0">>,
     <<"1", "/", "1", "/", "1", "9", "9", "0">>,
     <<"1", "9", "9", "0", "-", "1", "-", "1">>,
     <<"0", "1", "-", "0", "1", "-", "1", "9", "9", "0">>,
     <<"1", "3", "-", "0", "1", "-", "1", "9", "9", "0">>,
     <<"J", "a", "n", " ", "1">>,
     <<>>,
     <<"0", "2", "/", "0", "1", "/", "1", "9", "9", "0">>,
     <<"x", " ", "0", "1", "/", "0", "1", "/", "1", "9", "9", "0">>,
     <<"1", "9", "9", "0", "-", "0", "1", "-", "1", "3">>}

_get_text_mismatch_severity(similarity) ==
    IF similarity < 30 THEN "critical"
    ELSE IF similarity < 60 THEN "high"
    ELSE IF similarity < 80 THEN "medium"
    ELSE "low"

\* _validate_text; similarity is SequenceMatcher(None, app, doc).ratio()
_validate_text(similarity, tolerance) ==
    LET severity == _get_text_mismatch_severity(similarity)
    IN  IF tolerance = ExactTolerance THEN ValidationError
        ELSE IF similarity >= tolerance
        THEN Comparison("validated", "None", "None", (100 - similarity) * 100, FALSE)
        ELSE Comparison("mismatch", "value_difference", severity,
                        (100 - similarity) * 100,
                        severity \in {"critical", "high"})

_validate_date(app_value, doc_value) ==
    IF app_value = doc_value
    THEN Comparison("validated", "None", "None", 0, FALSE)
    ELSE Comparison("mismatch", "value_difference", "high", 10000, TRUE)

_compare_values(validation_type, tolerance, app_value, doc_value, similarity) ==
    LET app_normalized == _normalize_value(app_value, validation_type)
        doc_normalized == _normalize_value(doc_value, validation_type)
    IN  IF validation_type = "currency"
        THEN _validate_currency(app_normalized, doc_normalized, tolerance)
        ELSE IF validation_type = "date"
        THEN _validate_date(app_normalized, doc_normalized)
        ELSE IF validation_type = "number"
        THEN _validate_number(app_normalized, doc_normalized, tolerance)
        ELSE _validate_text(similarity, tolerance)

Similarities == {0, 29, 30, 31, 59, 60, 61, 69, 70, 79, 80, 81, 89, 90, 100}

CompareInputs ==
    [validation_type : {"currency", "number"}, tolerance : {5, 10},
     app_value : AmountTexts, doc_value : AmountTexts, similarity : {0}]
    \cup
    [validation_type : {"text"}, tolerance : {70, 80, 90, ExactTolerance},
     app_value : {<<"a", "b">>}, doc_value : {<<"a", "c">>},
     similarity : Similarities]
    \cup
    [validation_type : {"date"}, tolerance : {ExactTolerance},
     app_value : DateTexts, doc_value : DateTexts, similarity : {0}]

InitCompare ==
    /\ ProcessorIdle
    /\ call_args \in CompareInputs
    /\ call_result = <<>>

CompareValues ==
    /\ call_result = <<>>
    /\ call_args \in CompareInputs
    /\ call_result' = <<_compare_values(call_args.validation_type,
                                        call_args.tolerance,
                                        call_args.app_value,
                                        call_args.doc_value,
                                        call_args.similarity)>>
    /\ UNCHANGED <<procVars, call_args>>

SpecCompare == InitCompare /\ [][CompareValues]_vars

-----------------------------------------------------------------------------
(* DataValidationAgent: one form field against its extracted candidates.    *)
(* A candidate is a field object of an extracted_fields array.              *)

MaxCandidates == 2

\* ValidationConfig._initialize_field_configs: the entries modelled
field_configs ==
    [APPLICANT_FIRST_NAME |->
        [validation_type |-> "text", tolerance |-> 80,
         critical_field |-> FALSE, similarity_threshold |-> 70],
     APPLICANT_DOB |->
        [validation_type |-> "date", tolerance |-> ExactTolerance,
         critical_field |-> TRUE, similarity_threshold |-> 100],
     APPLICANT_SIN |->
        [validation_type |-> "text", tolerance |-> ExactTolerance,
         critical_field |-> TRUE, similarity_threshold |-> 100],
     APPLICANT_ADDRESS |->
        [validation_type |-> "text", tolerance |-> 70,
         critical_field |-> FALSE, similarity_threshold |-> 60],
     ANNUAL_INCOME |->
        [validation_type |-> "currency", tolerance |-> 5,
         critical_field |-> TRUE, similarity_threshold |-> 80]]

\* a form field that field_configs has no entry for
OTHER_FIELD == "OTHER_FIELD"

FieldNames == DOMAIN field_configs \cup {OTHER_FIELD}

get_field_config(field_name) ==
    IF field_name \in DOMAIN field_configs
    THEN field_configs[field_name]
    ELSE [validation_type |-> "text", tolerance |-> 80,
          critical_field |-> FALSE, similarity_threshold |-> 70]

\* field_config.get("similarity_threshold", 0.5)
similarity_threshold(field_config) ==
    IF "similarity_threshold" \in DOMAIN field_config
    THEN field_config.similarity_threshold
    ELSE 50

\* field_config.get("critical_fields", []) and .get("important_fields", [])
_get_missing_severity(field_name, field_config) ==
    IF /\ "critical_fields" \in DOMAIN field_config
       /\ field_name \in field_config.critical_fields
    THEN "critical"
    ELSE IF /\ "important_fields" \in DOMAIN field_config
            /\ field_name \in field_config.important_fields
    THEN "high"
    ELSE "medium"

\* the sample values: a form text and texts at ratio 0.9, 0.6 and 0.4 from
\* it, two amounts, and one date written two ways
FormText == <<"a", "b", "c", "d", "e", "f", "g", "h", "i", "j">>
Text90   == <<"a", "b", "c", "d", "e", "f", "g", "h", "i", "x">>
Text60   == <<"a", "b", "c", "d", "e", "f", "x", "x", "x", "x">>
Text40   == <<"a", "b", "c", "d", "x", "x", "x", "x", "x", "x">>
FormAmount  == <<"5", "0", "0", "0", "0">>
OtherAmount == <<"5", "2", "0", "0", "0">>
FormDate  == <<"0", "1", "/", "0", "2", "/", "1", "9", "9", "0">>
OtherDate == <<"1", "9", "9", "0", "-", "0", "1", "-", "0", "2">>

\* SequenceMatcher(None, value1, value2).ratio() in hundredths, tabulated
\* for the sample values
ratio(value1, value2) ==
    IF value1 = value2 THEN 100
    ELSE IF {value1, value2} = {FormText, Text90} THEN 90
    ELSE IF {value1, value2} = {FormText, Text60} THEN 60
    ELSE IF {value1, value2} = {FormText, Text40} THEN 40
    ELSE IF {value1, value2} = {FormAmount, OtherAmount} THEN 80
    ELSE IF {value1, value2} = {FormDate, OtherDate} THEN 40
    ELSE 0

\* 0.0 when either value is empty, else the ratio of the lowercased values
_calculate_similarity(value1, value2) ==
    IF value1 = <<>> \/ value2 = <<>> THEN 0 ELSE ratio(value1, value2)

\* (similarity_score * 0.7) + (confidence_score * 0.3), times 1000
combined_score(app_value, data) ==
    _calculate_similarity(app_value, data.field_value) * 7
        + data.confidence * 3

\* the first of the candidates with the greatest similarity
MostSimilar(app_value, document_data) ==
    CHOOSE i \in DOMAIN document_data :
        \A j \in DOMAIN document_data :
            /\ _calculate_similarity(app_value, document_data[i].field_value)
                   >= _calculate_similarity(app_value,
                                            document_data[j].field_value)
            /\ _calculate_similarity(app_value, document_data[i].field_value)
                   = _calculate_similarity(app_value,
                                           document_data[j].field_value)
                   => i <= j

\* scored_data.sort(reverse=True)[0]: list.sort is stable, so the first of
\* the candidates with the greatest score
BestScored(app_value, document_data) ==
    CHOOSE i \in DOMAIN document_data :
        \A j \in DOMAIN document_data :
            /\ combined_score(app_value, document_data[i])
                   >= combined_score(app_value, document_data[j])
            /\ combined_score(app_value, document_data[i])
                   = combined_score(app_value, document_data[j]) => i <= j

\* index of the candidate returned, 0 for None
_find_best_document_match(app_value, document_data, field_config) ==
    IF document_data = <<>> THEN 0
    ELSE IF Len(document_data) = 1 THEN 1
    ELSE LET best_match == BestScored(app_value, document_data)
         IN  IF _calculate_similarity(app_value,
                                      document_data[best_match].field_value)
                    >= similarity_threshold(field_config)
             THEN best_match
             ELSE 0

\* the dictionary _validate_single_field returns, without the identifiers
\* and notes
SingleFieldResult(field_name, app_value, comparison, document_value, confidence_score) ==
    [field_name |-> field_name,
     application_value |-> app_value,
     document_value |-> document_value,
     validation_status |-> comparison.validation_status,
     mismatch_type |-> comparison.mismatch_type,
     mismatch_severity |-> comparison.mismatch_severity,
     discrepancy_percentage |-> comparison.discrepancy_percentage,
     confidence_score |-> confidence_score,
     flag_for_review |-> comparison.flag_for_review]

_validate_single_field(field_name, app_value, document_data) ==
    LET field_config == get_field_config(field_name)
        best_match == _find_best_document_match(app_value, document_data,
                                                field_config)
    IN  IF document_data = <<>>
        THEN SingleFieldResult(field_name, app_value,
                 Comparison("missing", "missing_document",
                            _get_missing_severity(field_name, field_config),
                            NoneScore, TRUE),
                 "None", 0)
        ELSE IF best_match = 0
        THEN SingleFieldResult(field_name, app_value,
                 Comparison("mismatch", "value_difference", "high", 10000,
                            TRUE),
                 "None", 0)
        ELSE SingleFieldResult(field_name, app_value,
                 _compare_values(field_config.validation_type,
                                 field_config.tolerance, app_value,
                                 document_data[best_match].field_value,
                                 ratio(app_value,
                                       document_data[best_match].field_value)),
                 document_data[best_match].field_value,
                 document_data[best_match].confidence)

\* the form value of a field, and the values documents carry for it
FormValue(field_name) ==
    LET validation_type == get_field_config(field_name).validation_type
    IN  IF validation_type = "currency" THEN FormAmount
        ELSE IF validation_type = "date" THEN FormDate
        ELSE FormText

DocumentValues(field_name) ==
    LET validation_type == get_field_config(field_name).validation_type
    IN  IF validation_type = "currency" THEN {FormAmount, OtherAmount}
        ELSE IF validation_type = "date" THEN {FormDate, OtherDate}
        ELSE {FormText, Text90, Text60, Text40}

Candidates(field_name) ==
    [field_value : DocumentValues(field_name), confidence : {25, 60, 95}]

DocumentData(field_name) ==
    UNION {[1..n -> Candidates(field_name)] : n \in 0..MaxCandidates}

FieldInputs ==
    UNION {[field_name : {f}, app_value : {FormValue(f)},
            document_data : DocumentData(f)] : f \in FieldNames}

InitField ==
    /\ ProcessorIdle
    /\ call_args \in FieldInputs
    /\ call_result = <<>>

ValidateSingleField ==
    /\ call_result = <<>>
    /\ call_args \in FieldInputs
    /\ call_result' = <<_validate_single_field(call_args.field_name,
                                               call_args.app_value,
                                               call_args.document_data)>>
    /\ UNCHANGED <<procVars, call_args>>

SpecField == InitField /\ [][ValidateSingleField]_vars

-----------------------------------------------------------------------------
(* DataValidationAgent.validate_application_data called on its own: the     *)
(* per-field loop followed by the summary row and the formatting job.  The  *)
(* form is the latest extraction of the mortgage application document, and  *)
(* the candidates of a field are grouped from every extracted_data row of   *)
(* the application, that row included: each form field has its own value    *)
(* among its candidates.  The except branch of _compare_values cannot be    *)
(* reached: every method it calls catches its own exceptions.               *)

MaxFormFields == 2

\* the form fields of the runs modelled
RunFieldNames == {"APPLICANT_SIN", "APPLICANT_FIRST_NAME", "ANNUAL_INCOME"}

\* the field objects of a run: the form's own, read with confidence 0.25,
\* and one of a supporting document, read with confidence 0.95
RunCandidates(field_name) ==
    {[field_value |-> FormValue(field_name), confidence |-> 25],
     [field_value |->
          (IF get_field_config(field_name).validation_type = "currency"
           THEN OtherAmount ELSE Text90),
      confidence |-> 95]}

\* document_data_by_field.get(field_name, []) for a form field
RunDocumentData(field_name) ==
    {d \in UNION {[1..n -> RunCandidates(field_name)] :
                     n \in 1..MaxCandidates} :
        \E i \in DOMAIN d : d[i].field_value = FormValue(field_name)}

\* a form field with its value and its candidates
RunFields ==
    UNION {[field_name : {f}, app_value : {FormValue(f)},
            document_data : RunDocumentData(f)] : f \in RunFieldNames}

\* application_data.items(): distinct field names in the form's key order
RunInputs ==
    [application_id : {"APP-1"},
     application_data :
        {fields \in UNION {[1..n -> RunFields] : n \in 1..MaxFormFields} :
            \A i, j \in DOMAIN fields :
                fields[i].field_name = fields[j].field_name => i = j}]

\* validation_results of step 4: one _validate_single_field per form field
field_results(application_data) ==
    [i \in DOMAIN application_data |->
        _validate_single_field(application_data[i].field_name,
                               application_data[i].app_value,
                               application_data[i].document_data)]

\* the part of the field results that the summary reads
SummaryRun(results) ==
    [i \in DOMAIN results |->
        FieldResult(results[i].validation_status,
                    results[i].mismatch_severity,
                    results[i].flag_for_review)]

InitRun ==
    /\ ProcessorIdle
    /\ call_args \in RunInputs
    /\ call_result = <<>>

\* field_results is the list the loop built; the dictionary returned carries
\* success and validation_summary
ValidateApplicationData ==
    /\ call_result = <<>>
    /\ "application_data" \in DOMAIN call_args
    /\ LET results == field_results(call_args.application_data)
           eff == ValidationEffects(jobs, validation_results,
                                    call_args.application_id,
                                    SummaryRun(results))
       IN  /\ jobs' = eff.jobs
           /\ validation_results' = eff.validation_results
           /\ call_result' =
                  <<[success |-> TRUE,
                     validation_summary |->
                         _calculate_validation_summary(SummaryRun(results)),
                     field_results |-> results]>>
    /\ UNCHANGED <<is_running, loop, batch, tasks, semaphore, shutdown, cycle,
                   retry_result, call_args, applications, documents, pollers>>

SpecRun == InitRun /\ [][ValidateApplicationData]_vars

-----------------------------------------------------------------------------
(* DataValidationAgent.get_validation_status, called after validation runs  *)
(* of the applications.  A run stores what ValidationEffects stores: the    *)
(* per-field dictionaries lack the bind parameters of the INSERT of         *)
(* create_validation_result, so _store_validation_results stores none of    *)
(* them, and the table holds one summary row per run.                       *)

MaxRuns == 2

\* the field results of the runs modelled: every form field has a result
StatusRuns == {run \in AllRuns : Len(run) = MaxFields}

RECURSIVE Reverse(_)
Reverse(s) == IF s = <<>> THEN <<>> ELSE Reverse(Tail(s)) \o <<Head(s)>>

\* SELECT * ... WHERE application_id = :application_id
\* ORDER BY validated_at DESC
get_validation_results_by_application(vr, application_id) ==
    LET OfApplication(r) == r.application_id = application_id
    IN  Reverse(SelectSeq(vr, OfApplication))

\* the except branch: {"application_id": ..., "error": str(e)}
StatusError(application_id) ==
    [application_id |-> application_id, error |-> TRUE]

\* r["validation_status"] raises KeyError on a row without that key;
\* otherwise every row returned is counted
get_validation_status(vr, application_id) ==
    LET rows == get_validation_results_by_application(vr, application_id)
    IN  IF \E i \in DOMAIN rows :
               "validation_status" \notin DOMAIN rows[i]
        THEN StatusError(application_id)
        ELSE [application_id |-> application_id,
              error |-> FALSE,
              total_results |-> Len(rows),
              validated_count |-> validated_fields(rows),
              mismatch_count |-> mismatch_fields(rows),
              missing_count |-> missing_fields(rows),
              flagged_count |-> flagged_count(rows)]

InitStatus ==
    /\ ProcessorIdle
    /\ NoCall

\* validate_application_data(application_id) returns with success; run is
\* the list its per-field loop built
ValidationRunStored(application_id, run) ==
    /\ call_result = <<>>
    /\ Len(validation_results) < MaxRuns
    /\ LET eff == ValidationEffects(jobs, validation_results, application_id,
                                    run)
       IN  /\ jobs' = eff.jobs
           /\ validation_results' = eff.validation_results
    /\ UNCHANGED <<is_running, loop, batch, tasks, semaphore, shutdown, cycle,
                   retry_result, aux>>

GetValidationStatus(application_id) ==
    /\ call_result = <<>>
    /\ call_args' = [application_id |-> application_id]
    /\ call_result' = <<get_validation_status(validation_results,
                                              application_id)>>
    /\ UNCHANGED procVars

NextStatus ==
    \/ \E a \in Apps, run \in StatusRuns : ValidationRunStored(a, run)
    \/ \E a \in Apps : GetValidationStatus(a)

SpecStatus == InitStatus /\ [][NextStatus]_vars

-----------------------------------------------------------------------------
(* DataFormattingAgent.get_golden_data_summary on the rows that             *)
(* get_golden_data_by_application returns: the golden_data rows of the      *)
(* application, newest first (ORDER BY created_at DESC), one row per field  *)
(* and formatting run as models/golden_data.py declares them.               *)

MaxGoldenRows == 2

GoldenFieldNames == {"APPLICANT_FIRST_NAME", "ANNUAL_INCOME"}

GoldenRows ==
    [field_name : GoldenFieldNames,
     field_value : {"V1", "V2"},
     data_source : {"application_form", "document_extraction"},
     confidence_score : {60, 95},
     is_verified : BOOLEAN]

\* the first keyword list that a lowercased field name matches
Category(field_name) ==
    IF field_name = "APPLICANT_FIRST_NAME" THEN "personal_info"   \* 'name'
    ELSE IF field_name = "ANNUAL_INCOME" THEN "financial_info"    \* 'income'
    ELSE "other_info"

Categories == {"personal_info", "financial_info", "employment_info",
               "property_info", "other_info"}

\* field_data of a row
FieldData(data) ==
    [value |-> data.field_value,
     confidence |-> data.confidence_score,
     verified |-> data.is_verified,
     source |-> data.data_source]

\* category[field_name] = field_data in the order of the rows: the last
\* row of a field name is the one that stays
CategoryInfo(golden_data, category) ==
    LET names == {golden_data[i].field_name : i \in DOMAIN golden_data}
        last(n) == CHOOSE i \in DOMAIN golden_data :
                       /\ golden_data[i].field_name = n
                       /\ \A j \in DOMAIN golden_data :
                              golden_data[j].field_name = n => j <= i
    IN  [n \in {m \in names : Category(m) = category} |->
            FieldData(golden_data[last(n)])]

get_golden_data_summary(application_id, golden_data) ==
    LET total_fields == Len(golden_data)
        verified_fields ==
            Cardinality({i \in DOMAIN golden_data : golden_data[i].is_verified})
        high_confidence_fields ==
            Cardinality({i \in DOMAIN golden_data :
                            golden_data[i].confidence_score >= 80})
    IN  IF golden_data = <<>>
        THEN [application_id |-> application_id, status |-> "no_data"]
        ELSE [application_id |-> application_id,
              status |-> "completed",
              total_fields |-> total_fields,
              verified_fields |-> verified_fields,
              high_confidence_fields |-> high_confidence_fields,
              categories |->
                  [c \in Categories |-> CategoryInfo(golden_data, c)],
              ready_for_decision_engine |->
                  verified_fields * 10 >= total_fields * 8]

GoldenInputs ==
    [application_id : {"APP-1"},
     golden_data : UNION {[1..n -> GoldenRows] : n \in 0..MaxGoldenRows}]

InitGolden ==
    /\ ProcessorIdle
    /\ call_args \in GoldenInputs
    /\ call_result = <<>>

GetGoldenDataSummary ==
    /\ call_result = <<>>
    /\ "golden_data" \in DOMAIN call_args
    /\ call_result' = <<get_golden_data_summary(call_args.application_id,
                                                call_args.golden_data)>>
    /\ UNCHANGED <<procVars, call_args>>

SpecGolden == InitGolden /\ [][GetGoldenDataSummary]_vars

-----------------------------------------------------------------------------
(* The processor under the scheduling asyncio guarantees: the event loop    *)
(* resumes every task that can run, a sleep ends, a database call and a     *)
(* stage handler return.  Requests from outside (add_extraction_job,        *)
(* retry_failed_jobs, stop, cancellation) carry no fairness.                *)

Fairness ==
    /\ WF_vars(StartJobProcessor)
    /\ WF_vars(PollEmpty \/ PollBatch)
    /\ WF_vars(\E i \in 1..BatchLimit : ClaimJob(i))
    /\ WF_vars(\E i \in 1..BatchLimit, o \in {"success", "failure", "raise"} :
                  ExtractionReturns(i, o))
    /\ WF_vars(\E i \in 1..BatchLimit : ValidationRunFails(i))
    /\ WF_vars(\E i \in 1..BatchLimit : FormattingRaises(i))
    /\ WF_vars(\E i \in 1..BatchLimit : FinishJob(i))
    /\ WF_vars(GatherDone)
    /\ WF_vars(WakeUp)

FairSpec == Init /\ [][Next]_vars /\ Fairness

-----------------------------------------------------------------------------
(* The upload path: DocumentProcessingOrchestrator.process_application_     *)
(* documents with the ingestion agent, and the stages that follow on the    *)
(* uploaded documents.  The request in progress is call_args (the           *)
(* application and the files not yet ingested, each valid or not); a        *)
(* document's id is its index in documents.  The job processor is taken at  *)
(* the grain of its database writes: the claim of an extraction job with    *)
(* the start of its handler, and the end of each handler with the outcome.  *)

MaxDocuments == 2
MaxUploadJobs == 4

\* _get_job_priority / _get_document_priority of a mortgage_application
DocumentPriority == 1

Files == {<<"valid">>, <<"invalid">>, <<"valid", "valid">>,
          <<"valid", "invalid">>, <<"invalid", "valid">>}

\* job_data of the three agents: a document_jobs row with its document_id
\* (0 for an application-level job)
job_data(application_id, document_id, job_type, priority) ==
    [document_id |-> document_id] @@
        create_document_job(<<>>, application_id, job_type, priority)[1]

\* the valid files among the files of a request
RECURSIVE ValidFiles(_)
ValidFiles(files) ==
    IF files = <<>> THEN 0
    ELSE (IF Head(files) = "valid" THEN 1 ELSE 0) + ValidFiles(Tail(files))

InitUpload ==
    /\ jobs = <<>>
    /\ validation_results = <<>>
    /\ is_running = FALSE
    /\ loop = "not_started"
    /\ batch = <<>>
    /\ tasks = <<>>
    /\ semaphore = 0
    /\ shutdown = "none"
    /\ cycle = "none"
    /\ retry_result = NoRetry
    /\ NoCall
    /\ NoUploads

processorState == <<validation_results, is_running, loop, batch, tasks,
                    semaphore, shutdown, cycle, retry_result, pollers>>

\* process_application_documents, step 0: the application is created with
\* status document_upload when it does not exist
process_application_documents(application_id, files) ==
    /\ call_args = <<>>
    /\ Len(documents) + ValidFiles(files) <= MaxDocuments
    /\ call_args' = [application_id |-> application_id, files |-> files]
    /\ call_result' = <<>>
    /\ applications' = IF application_id \in DOMAIN applications
                       THEN applications
                       ELSE (application_id :> "document_upload") @@ applications
    /\ UNCHANGED <<jobs, documents, processorState>>

\* process_document_upload of the next file: a file that fails validation
\* leaves no trace; a valid one gets its document row, its extraction job,
\* and the application is set to processing
process_document_upload ==
    /\ call_args # <<>>
    /\ call_args.files # <<>>
    /\ LET application_id == call_args.application_id
           document_id == Len(documents) + 1
       IN  IF Head(call_args.files) = "valid"
           THEN /\ documents' = Append(documents,
                                   [application_id    |-> application_id,
                                    processing_status |-> "pending"])
                /\ jobs' = Append(jobs, job_data(application_id, document_id,
                                                 "extraction", DocumentPriority))
                /\ applications' = [applications EXCEPT
                                       ![application_id] = "processing"]
           ELSE UNCHANGED <<documents, jobs, applications>>
    /\ call_args' = [call_args EXCEPT !.files = Tail(@)]
    /\ UNCHANGED <<call_result, processorState>>

\* the documents of the application that are still pending, in upload order
RECURSIVE PendingDocuments(_, _, _)
PendingDocuments(docs, application_id, from) ==
    IF from > Len(docs) THEN <<>>
    ELSE (IF /\ docs[from].application_id = application_id
             /\ docs[from].processing_status = "pending"
          THEN <<from>> ELSE <<>>)
         \o PendingDocuments(docs, application_id, from + 1)

\* add_extraction_job for each document id of the list
RECURSIVE AddExtractionJobs(_, _, _)
AddExtractionJobs(js, application_id, ids) ==
    IF ids = <<>> THEN js
    ELSE AddExtractionJobs(
             Append(js, job_data(application_id, Head(ids), "extraction",
                                 DocumentPriority)),
             application_id, Tail(ids))

\* step 2, _start_background_processing: an extraction job is added for
\* every document of the application whose processing_status is pending,
\* and the request returns
start_background_processing ==
    /\ call_args # <<>>
    /\ call_args.files = <<>>
    /\ LET application_id == call_args.application_id
           added == AddExtractionJobs(jobs, application_id,
                        PendingDocuments(documents, application_id, 1))
       IN  /\ Len(added) <= MaxUploadJobs
           /\ jobs' = added
           /\ call_result' = <<[success |-> TRUE, application_id |-> application_id]>>
    /\ call_args' = <<>>
    /\ UNCHANGED <<applications, documents, processorState>>

\* _process_single_job claims an extraction job and extract_document_data
\* sets its document to processing (step 3)
ExtractionStarts(job_id) ==
    /\ job_id \in DOMAIN jobs
    /\ jobs[job_id].job_type = "extraction"
    /\ jobs[job_id].status = "pending"
    /\ jobs' = update_job_status(jobs, job_id, "processing", "")
    /\ documents' = [documents EXCEPT
                        ![jobs[job_id].document_id].processing_status = "processing"]
    /\ UNCHANGED <<applications, call_args, call_result, processorState>>

\* extract_document_data ends: on success the document is completed and the
\* validation job created, on failure the document is failed; the job row
\* takes the outcome
ExtractionEnds(job_id, success) ==
    /\ job_id \in DOMAIN jobs
    /\ jobs[job_id].job_type = "extraction"
    /\ jobs[job_id].status = "processing"
    /\ LET job == jobs[job_id]
       IN  IF success
           THEN /\ Len(jobs) < MaxUploadJobs
                /\ documents' = [documents EXCEPT
                                    ![job.document_id].processing_status = "completed"]
                /\ jobs' = update_job_status(
                               Append(jobs, job_data(job.application_id,
                                                     job.document_id, "validation",
                                                     ValidationJobPriority)),
                               job_id, "completed", "")
           ELSE /\ documents' = [documents EXCEPT
                                    ![job.document_id].processing_status = "failed"]
                /\ jobs' = update_job_status(jobs, job_id, "failed", ErrExtraction)
    /\ UNCHANGED <<applications, call_args, call_result, processorState>>

\* a validation job is claimed and validate_application_data runs to its
\* end: it fails, or it succeeds and creates the formatting job when the run
\* reached the completion threshold; no step of it writes the application
ValidationStage(job_id, outcome) ==
    /\ job_id \in DOMAIN jobs
    /\ jobs[job_id].job_type = "validation"
    /\ jobs[job_id].status = "pending"
    /\ \/ /\ outcome = "failure"
          /\ jobs' = update_job_status(jobs, job_id, "failed", ErrValidation)
       \/ /\ outcome = "below_threshold"
          /\ jobs' = update_job_status(jobs, job_id, "completed", "")
       \/ /\ outcome = "threshold_reached"
          /\ Len(jobs) < MaxUploadJobs
          /\ jobs' = update_job_status(
                         Append(jobs, job_data(jobs[job_id].application_id, 0,
                                               "formatting", FormattingJobPriority)),
                         job_id, "completed", "")
    /\ UNCHANGED <<applications, documents, call_args, call_result, processorState>>

\* a formatting job is claimed: the service has no formatting agent, the
\* job fails and the application is not written
FormattingStage(job_id) ==
    /\ job_id \in DOMAIN jobs
    /\ jobs[job_id].job_type = "formatting"
    /\ jobs[job_id].status = "pending"
    /\ formatting_agent = "None"
    /\ jobs' = update_job_status(jobs, job_id, "failed", ErrAttribute)
    /\ UNCHANGED <<applications, documents, call_args, call_result, processorState>>

NextUpload ==
    \/ \E a \in Apps, files \in Files : process_application_documents(a, files)
    \/ process_document_upload
    \/ start_background_processing
    \/ \E job_id \in 1..MaxUploadJobs : ExtractionStarts(job_id)
    \/ \E job_id \in 1..MaxUploadJobs, success \in BOOLEAN :
          ExtractionEnds(job_id, success)
    \/ \E job_id \in 1..MaxUploadJobs,
          outcome \in {"failure", "below_threshold", "threshold_reached"} :
          ValidationStage(job_id, outcome)
    \/ \E job_id \in 1..MaxUploadJobs : FormattingStage(job_id)

SpecUpload == InitUpload /\ [][NextUpload]_vars

-----------------------------------------------------------------------------
(* More than one poll loop on the document_jobs table.  The first loop is   *)
(* the processor above.  A further loop is either a second                  *)
(* start_job_processor coroutine of the same JobQueueService, started after *)
(* stop_job_processor reset is_running (it shares self.is_running with the  *)
(* first), or the loop of a second JobQueueService instance with its own    *)
(* is_running.  pollers[p] holds a further loop: its service, where it is,  *)
(* and the batch, tasks and semaphore of its current cycle.                 *)

\* the indices of pollers: there is one further loop at most
Pollers == {1}

Poller(service, running, at, b, ts, sem) ==
    [service |-> service, is_running |-> running, loop |-> at, batch |-> b,
     tasks |-> ts, semaphore |-> sem]

\* self.is_running as the loop of pollers[p] reads it
PollerRunning(p) ==
    IF pollers[p].service = "same" THEN is_running ELSE pollers[p].is_running

\* what a step of the loop pollers[p] leaves unchanged
PollerFrame ==
    UNCHANGED <<validation_results, is_running, loop, batch, tasks, semaphore,
                shutdown, cycle, retry_result, call_args, call_result,
                applications, documents>>

\* start_job_processor called again on the service after stop_job_processor:
\* is_running is False, so the call sets it and enters its own while loop,
\* whether or not the earlier coroutine has ended
RestartJobProcessor ==
    /\ loop # "not_started"
    /\ ~is_running
    /\ pollers = <<>>
    /\ is_running' = TRUE
    /\ pollers' = Append(pollers, Poller("same", FALSE, "fetch", <<>>, <<>>, 0))
    /\ UNCHANGED <<jobs, validation_results, loop, batch, tasks, semaphore,
                   shutdown, cycle, retry_result, call_args, call_result,
                   applications, documents>>

\* a second JobQueueService on the same database starts its job processor
StartSecondScheduler ==
    /\ pollers = <<>>
    /\ pollers' = Append(pollers, Poller("other", TRUE, "fetch", <<>>, <<>>, 0))
    /\ UNCHANGED jobs
    /\ PollerFrame

\* _process_job_queue of pollers[p]: no pending job
PollerPollEmpty(p) ==
    /\ p \in DOMAIN pollers
    /\ pollers[p].loop = "fetch"
    /\ get_pending_jobs(jobs) = <<>>
    /\ pollers' = [pollers EXCEPT ![p].loop = "sleep"]
    /\ UNCHANGED jobs
    /\ PollerFrame

\* a fetch that skips the rows another loop holds in its batch
\* (SELECT ... FOR UPDATE SKIP LOCKED held over the cycle)
PollerPollBatchSkipLocked(p) ==
    /\ p \in DOMAIN pollers
    /\ pollers[p].loop = "fetch"
    /\ LET pending_jobs == SelectSeq(get_pending_jobs(jobs),
                                     LAMBDA id : \A k \in DOMAIN batch : batch[k] # id)
       IN  /\ pending_jobs # <<>>
           /\ pollers' = [pollers EXCEPT
                 ![p].loop = "gather",
                 ![p].batch = pending_jobs,
                 ![p].tasks = [i \in DOMAIN pending_jobs |->
                                  Task("waiting", "none", FALSE, "")],
                 ![p].semaphore = MaxConcurrentJobs]
    /\ UNCHANGED jobs
    /\ PollerFrame

\* _process_job_queue of pollers[p]: the pending rows, whoever else fetched
\* them, a new Semaphore(3) and one task per job of pending_jobs[:10]
PollerPollBatch(p) ==
    /\ p \in DOMAIN pollers
    /\ pollers[p].loop = "fetch"
    /\ LET fetched == get_pending_jobs(jobs)
           pending_jobs == SubSeq(fetched, 1, Min(Len(fetched), BatchLimit))
       IN  /\ pending_jobs # <<>>
           /\ pollers' = [pollers EXCEPT
                 ![p].loop = "gather",
                 ![p].batch = pending_jobs,
                 ![p].tasks = [i \in DOMAIN pending_jobs |->
                                  Task("waiting", "none", FALSE, "")],
                 ![p].semaphore = MaxConcurrentJobs]
    /\ UNCHANGED jobs
    /\ PollerFrame

\* process_job of pollers[p]: the semaphore of its own cycle, then the
\* unconditional update_job_status(job_id, "processing")
PollerClaimJob(p, i) ==
    /\ p \in DOMAIN pollers
    /\ pollers[p].loop = "gather"
    /\ i \in DOMAIN pollers[p].tasks
    /\ pollers[p].tasks[i].st = "waiting"
    /\ pollers[p].semaphore > 0
    /\ \A k \in 1..(i - 1) : pollers[p].tasks[k].st # "waiting"
    /\ jobs' = update_job_status(jobs, pollers[p].batch[i], "processing", "")
    /\ pollers' = [pollers EXCEPT ![p].semaphore = @ - 1,
                                  ![p].tasks[i].st = "running"]
    /\ PollerFrame

\* the job of the running task i of pollers[p]
PollerJob(p, i) == jobs[pollers[p].batch[i]]

PollerHandlerRuns(p, i, job_type) ==
    /\ p \in DOMAIN pollers
    /\ pollers[p].loop = "gather"
    /\ i \in DOMAIN pollers[p].tasks
    /\ pollers[p].tasks[i].st = "running"
    /\ PollerJob(p, i).job_type = job_type

\* extract_document_data called by pollers[p]
PollerExtractionReturns(p, i, outcome) ==
    /\ PollerHandlerRuns(p, i, "extraction")
    /\ \/ /\ outcome = "success"
          /\ Len(jobs) < MaxJobs
          /\ jobs' = create_document_job(jobs, PollerJob(p, i).application_id,
                                         "validation", ValidationJobPriority)
          /\ pollers' = [pollers EXCEPT
                            ![p].tasks[i] = Task("returned", "result", TRUE, "")]
       \/ /\ outcome \in {"failure", "raise"}
          /\ jobs' = jobs
          /\ pollers' = [pollers EXCEPT
                            ![p].tasks[i] = Task("returned", "result", FALSE,
                                                 ErrExtraction)]
    /\ PollerFrame

\* validate_application_data called by pollers[p]: success or failure
PollerValidationReturns(p, i, run) ==
    /\ PollerHandlerRuns(p, i, "validation")
    /\ IF run = <<>>
       THEN /\ UNCHANGED <<jobs, validation_results>>
            /\ pollers' = [pollers EXCEPT
                              ![p].tasks[i] = Task("returned", "result", FALSE,
                                                   ErrValidation)]
       ELSE LET eff == ValidationEffects(jobs, validation_results,
                                         PollerJob(p, i).application_id, run)
            IN  /\ Len(eff.jobs) <= MaxJobs \/ Len(eff.jobs) = Len(jobs)
                /\ jobs' = eff.jobs
                /\ validation_results' = eff.validation_results
                /\ pollers' = [pollers EXCEPT
                                  ![p].tasks[i] = Task("returned", "result", TRUE, "")]
    /\ UNCHANGED <<is_running, loop, batch, tasks, semaphore, shutdown, cycle,
                   retry_result, call_args, call_result, applications, documents>>

\* the formatting branch of _process_single_job in pollers[p]
PollerFormattingRaises(p, i) ==
    /\ PollerHandlerRuns(p, i, "formatting")
    /\ formatting_agent = "None"
    /\ pollers' = [pollers EXCEPT
                      ![p].tasks[i] = Task("returned", "raised", FALSE, ErrAttribute)]
    /\ UNCHANGED jobs
    /\ PollerFrame

\* the tail of _process_single_job in pollers[p]
PollerFinishJob(p, i) ==
    /\ p \in DOMAIN pollers
    /\ pollers[p].loop = "gather"
    /\ i \in DOMAIN pollers[p].tasks
    /\ pollers[p].tasks[i].st = "returned"
    /\ jobs' = update_job_status(jobs, pollers[p].batch[i],
                                 OutcomeStatus(pollers[p].tasks[i]),
                                 OutcomeError(pollers[p].tasks[i]))
    /\ pollers' = [pollers EXCEPT ![p].semaphore = @ + 1,
                                  ![p].tasks[i].st = "done"]
    /\ PollerFrame

\* gather of pollers[p] returns; sleep(5)
PollerGatherDone(p) ==
    /\ p \in DOMAIN pollers
    /\ pollers[p].loop = "gather"
    /\ \A i \in DOMAIN pollers[p].tasks : pollers[p].tasks[i].st = "done"
    /\ pollers' = [pollers EXCEPT ![p].loop = "sleep", ![p].batch = <<>>,
                                  ![p].tasks = <<>>, ![p].semaphore = 0]
    /\ UNCHANGED jobs
    /\ PollerFrame

\* sleep(5) of pollers[p] is over: `while self.is_running`
PollerWakeUp(p) ==
    /\ p \in DOMAIN pollers
    /\ pollers[p].loop = "sleep"
    /\ pollers' = [pollers EXCEPT
                      ![p].loop = IF PollerRunning(p) THEN "fetch" ELSE "stopped"]
    /\ UNCHANGED jobs
    /\ PollerFrame

\* stop_job_processor, called at any time and any number of times
StopAgain ==
    /\ loop # "not_started"
    /\ is_running
    /\ is_running' = FALSE
    /\ shutdown' = "stop"
    /\ UNCHANGED <<jobs, validation_results, loop, batch, tasks, semaphore,
                   retry_result, cycle>>
    /\ UNCHANGED aux

\* the table holds the extraction job of one uploaded document
InitShared ==
    /\ jobs = create_document_job(<<>>, "APP-1", "extraction", DocumentPriority)
    /\ validation_results = <<>>
    /\ is_running = FALSE
    /\ loop = "not_started"
    /\ batch = <<>>
    /\ tasks = <<>>
    /\ semaphore = 0
    /\ shutdown = "none"
    /\ cycle = "none"
    /\ retry_result = NoRetry
    /\ NoCall
    /\ NoUploads

\* two JobQueueService instances polling the same table
NextTwoSchedulers ==
    \/ StartJobProcessor
    \/ PollEmpty
    \/ PollBatch
    \/ \E i \in 1..BatchLimit : ClaimJob(i)
    \/ \E i \in 1..BatchLimit, o \in {"success", "failure"} :
            ExtractionReturns(i, o)
    \/ \E i \in 1..BatchLimit, run \in SampleRuns : ValidationRunSucceeds(i, run)
    \/ \E i \in 1..BatchLimit : ValidationRunFails(i)
    \/ \E i \in 1..BatchLimit : FormattingRaises(i)
    \/ \E i \in 1..BatchLimit : FinishJob(i)
    \/ GatherDone
    \/ WakeUp
    \/ StartSecondScheduler
    \/ \E p \in Pollers : PollerPollEmpty(p)
    \/ \E p \in Pollers : PollerPollBatch(p)
    \/ \E p \in Pollers, i \in 1..BatchLimit : PollerClaimJob(p, i)
    \/ \E p \in Pollers, i \in 1..BatchLimit, o \in {"success", "failure"} :
            PollerExtractionReturns(p, i, o)
    \/ \E p \in Pollers, i \in 1..BatchLimit, run \in SampleRuns \cup {<<>>} :
            PollerValidationReturns(p, i, run)
    \/ \E p \in Pollers, i \in 1..BatchLimit : PollerFormattingRaises(p, i)
    \/ \E p \in Pollers, i \in 1..BatchLimit : PollerFinishJob(p, i)
    \/ \E p \in Pollers : PollerGatherDone(p)
    \/ \E p \in Pollers : PollerWakeUp(p)

SpecTwoSchedulers == InitShared /\ [][NextTwoSchedulers]_vars

\* one JobQueueService under start_job_processor and stop_job_processor
\* calls in any order
NextRestart ==
    \/ StartJobProcessor
    \/ PollEmpty
    \/ PollBatch
    \/ \E i \in 1..BatchLimit : ClaimJob(i)
    \/ \E i \in 1..BatchLimit, o \in {"success", "failure"} :
            ExtractionReturns(i, o)
    \/ \E i \in 1..BatchLimit, run \in SampleRuns : ValidationRunSucceeds(i, run)
    \/ \E i \in 1..BatchLimit : ValidationRunFails(i)
    \/ \E i \in 1..BatchLimit : FormattingRaises(i)
    \/ \E i \in 1..BatchLimit : FinishJob(i)
    \/ GatherDone
    \/ WakeUp
    \/ StopAgain
    \/ RestartJobProcessor
    \/ \E p \in Pollers : PollerPollEmpty(p)
    \/ \E p \in Pollers : PollerPollBatch(p)
    \/ \E p \in Pollers, i \in 1..BatchLimit : PollerClaimJob(p, i)
    \/ \E p \in Pollers, i \in 1..BatchLimit, o \in {"success", "failure"} :
            PollerExtractionReturns(p, i, o)
    \/ \E p \in Pollers, i \in 1..BatchLimit, run \in SampleRuns \cup {<<>>} :
            PollerValidationReturns(p, i, run)
    \/ \E p \in Pollers, i \in 1..BatchLimit : PollerFormattingRaises(p, i)
    \/ \E p \in Pollers, i \in 1..BatchLimit : PollerFinishJob(p, i)
    \/ \E p \in Pollers : PollerGatherDone(p)
    \/ \E p \in Pollers : PollerWakeUp(p)

SpecRestart == InitShared /\ [][NextRestart]_vars

-----------------------------------------------------------------------------
(* Properties of the job state machine and the scheduler *)

JobIds == DOMAIN jobs
BatchIds == {batch[k] : k \in DOMAIN batch}
Claimed(k) == tasks[k].st \notin {"waiting", "cancelled"}

C4_AtMostThreeHandlers ==
    Cardinality({k \in DOMAIN tasks : InFlight(tasks[k])}) <= 3

\* a cycle that fetched 10 jobs has 3 handlers running and the rest waiting
C4_Witness ==
    /\ Len(batch) = 10
    /\ Cardinality({k \in DOMAIN tasks : tasks[k].st = "running"}) = 3
    /\ Cardinality({k \in DOMAIN tasks : tasks[k].st = "waiting"}) = 7

\* (priority, created_at) order, stated on the rows themselves
ServedBefore(a, b) ==
    \/ jobs[a].priority < jobs[b].priority
    \/ jobs[a].priority = jobs[b].priority /\ a < b

Finishes(k) ==
    /\ k \in DOMAIN tasks /\ k \in DOMAIN tasks'
    /\ tasks[k].st = "returned"
    /\ tasks'[k].st = "done"

C8_IdleCycleIsNoOp ==
    [][/\ (loop = "fetch" /\ loop' \notin {"fetch", "cancelled"}) =>
            \/ loop' = "gather" /\ get_pending_jobs(jobs) # <<>>
            \/ /\ loop' = "sleep"
               /\ jobs' = jobs
               /\ validation_results' = validation_results
               /\ is_running' = is_running
       /\ (loop = "fetch" /\ get_pending_jobs(jobs) = <<>>) => loop' # "gather"
       /\ (loop = "sleep" /\ is_running /\ loop' \notin {"sleep", "cancelled"}) =>
            loop' = "fetch"]_vars

\* the cycle after a failed fetch has begun while a pending job is still
\* waiting, its row untouched
C8_Witness ==
    /\ cycle = "fetch_error"
    /\ loop = "fetch"
    /\ is_running
    /\ \E id \in JobIds : jobs[id].status = "pending"

\* C2: every job that is set to processing eventually becomes completed or
\* failed, whatever its handler does and also when the processor is shut
\* down while the job is in flight.
C2_ProcessingEnds ==
    \A id \in 1..MaxJobs :
        (id \in JobIds /\ jobs[id].status = "processing")
            ~> (id \in JobIds /\ jobs[id].status \in {"completed", "failed"})

\* the eligible jobs of a retry_failed_jobs(application_id) call
Eligible(application_id) ==
    {id \in JobIds : /\ jobs[id].status = "failed"
                     /\ jobs[id].retry_count < jobs[id].max_retries
                     /\ (application_id # "" =>
                            jobs[id].application_id = application_id)}

\* the step of a retry_failed_jobs call (the first one, or one whose return
\* value or argument differs from the last call's)
RetryCall == retry_result' # retry_result

\* C3: every failed attempt that is retried adds exactly one to the job's
\* retry_count: a retry puts the failed job back to pending with
\* retry_count + 1, so that k failures followed by a success end completed
\* with retry_count = k.
C3_RetryCountsAttempts ==
    [][RetryCall =>
          \A id \in Eligible(retry_result'.application_id) :
              /\ jobs'[id].status = "pending"
              /\ jobs'[id].retry_count = jobs[id].retry_count + 1]_vars

\* C7: after a shutdown signal no new poll cycle starts, and every stage
\* execution that was in flight at the signal runs to its end and persists
\* its job's outcome.
C7_ShutdownDrains ==
    /\ [][(shutdown # "none" /\ loop # "fetch") => loop' # "fetch"]_vars
    /\ [][\A k \in DOMAIN tasks :
             InFlight(tasks[k]) =>
                /\ k \in DOMAIN tasks'
                /\ tasks'[k].st \in {"running", "returned", "done"}]_vars
    /\ [](loop \in {"stopped", "cancelled"} =>
             \A id \in JobIds : jobs[id].status # "processing")

\* C9: retry_failed_jobs(application_id) sets to pending exactly the failed
\* jobs with retry_count < max_retries (of the application, or of all when
\* none is given), leaves every other job unchanged, and returns their number.
C9_RetryResetsEligible ==
    [][RetryCall =>
          LET E == Eligible(retry_result'.application_id)
          IN  /\ \A id \in E : jobs'[id].status = "pending"
              /\ \A id \in JobIds \ E : jobs'[id] = jobs[id]
              /\ retry_result'.retried_jobs = Cardinality(E)]_vars

\* the completion percentage of a stored summary row reaches 80
RowReaches80(row) == row.validated_fields * 100 >= 80 * row.total_fields

\* C10: a validation run that completes enqueues a pending formatting job
\* for its application iff validated / total * 100 >= 80, whatever the number
\* of flagged results and their severities; below 80 it enqueues nothing.
C10_FormattingIffEighty ==
    [][Len(validation_results') = Len(validation_results) + 1 =>
          LET row == validation_results'[Len(validation_results')]
          IN  IF RowReaches80(row)
              THEN /\ Len(jobs') = Len(jobs) + 1
                   /\ jobs'[Len(jobs')].job_type = "formatting"
                   /\ jobs'[Len(jobs')].status = "pending"
                   /\ jobs'[Len(jobs')].application_id = row.application_id
                   /\ \A id \in JobIds : jobs'[id] = jobs[id]
              ELSE jobs' = jobs]_vars

\* a run at exactly 80% with a critical mismatch flagged for review has
\* completed, and the formatting job of its application is pending
C10_Witness ==
    /\ \E r \in DOMAIN validation_results :
          /\ validation_results[r].total_fields = 5
          /\ validation_results[r].validated_fields = 4
          /\ validation_results[r].critical_mismatches = 1
          /\ validation_results[r].flagged_for_review = 1
          /\ \E id \in JobIds :
                /\ jobs[id].job_type = "formatting"
                /\ jobs[id].status = "pending"
                /\ jobs[id].application_id = validation_results[r].application_id
    /\ \E id \in JobIds :
          jobs[id].job_type = "validation" /\ jobs[id].status = "completed"

\* C11: the resolver's (value, source, confidence) is this function of the
\* validation result: validated with a document value -> the document value
\* at its confidence, validated without -> form value at 0.9; mismatch
\* critical -> form at 0.7, high -> form at 0.6 whatever the confidence;
\* mismatch medium or low -> document value when its confidence is above 0.8,
\* else form at 0.5; missing -> form at 0.8.
C11_ResolverChoice ==
    (call_result # <<>> /\ call_args \in ResolverInputs) =>
        LET app == call_args.app_value
            vr  == call_args.validation_result
            doc == vr.document_value
            c   == vr.confidence_score
            FromForm(conf) ==
                /\ call_result[1].value = app
                /\ call_result[1].data_source = "application_form"
                /\ call_result[1].confidence_score = conf
            FromDocument ==
                /\ call_result[1].value = doc
                /\ call_result[1].data_source = "document_extraction"
                /\ call_result[1].confidence_score = c
        IN  /\ (vr.validation_status = "validated" /\ doc \notin {"None", ""})
                  => FromDocument
            /\ (vr.validation_status = "validated" /\ doc \in {"None", ""})
                  => FromForm(90)
            /\ (vr.validation_status = "mismatch" /\ vr.mismatch_severity = "critical")
                  => FromForm(70)
            /\ (vr.validation_status = "mismatch" /\ vr.mismatch_severity = "high")
                  => FromForm(60)
            /\ (/\ vr.validation_status = "mismatch"
                /\ vr.mismatch_severity \in {"medium", "low"}
                /\ c # NoneScore)
                  => IF c > 80 THEN FromDocument ELSE FromForm(50)
            /\ vr.validation_status = "missing" => FromForm(80)

\* a critical mismatch whose document confidence is 0.95 resolved to the
\* form value at 0.7, and a low one at 0.81 resolved to the document value
C11_Witness ==
    /\ call_args \in ResolverInputs
    /\ call_result # <<>>
    /\ call_args.validation_result.validation_status = "mismatch"
    /\ \/ /\ call_args.validation_result.mismatch_severity = "critical"
          /\ call_args.validation_result.confidence_score = 95
          /\ call_result = <<Best("APP", "application_form", 70)>>
       \/ /\ call_args.validation_result.mismatch_severity = "low"
          /\ call_args.validation_result.confidence_score = 81
          /\ call_args.validation_result.document_value = "DOC"
          /\ call_result = <<Best("DOC", "document_extraction", 81)>>

\* the call is a comparison of the given type and has returned
Compared(type) ==
    /\ call_args \in CompareInputs
    /\ call_args.validation_type = type
    /\ call_result # <<>>

C15_TextComparator ==
    Compared("text") =>
        LET sim == call_args.similarity
            tol == IF call_args.tolerance = ExactTolerance THEN 100
                   ELSE call_args.tolerance
            r   == call_result[1]
        IN  /\ r.validation_status = "validated" <=> sim >= tol
            /\ sim < tol =>
                  /\ r.validation_status = "mismatch"
                  /\ r.mismatch_severity = "critical" <=> sim < 30
                  /\ r.mismatch_severity = "high" <=> (30 <= sim /\ sim < 60)
                  /\ r.mismatch_severity = "medium" <=> (60 <= sim /\ sim < 80)
                  /\ r.mismatch_severity = "low" <=> sim >= 80

\* the comparison of form "1990-01-01" with extracted "01/02/1990"
DobExample ==
    /\ Compared("date")
    /\ call_args.app_value = <<"1", "9", "9", "0", "-", "0", "1", "-", "0", "1">>
    /\ call_args.doc_value = <<"0", "1", "/", "0", "2", "/", "1", "9", "9", "0">>

\* validated iff equal after normalization, else mismatch/value_difference/high
DateExactOrFail ==
    Compared("date") =>
        LET r == call_result[1]
            same == _normalize_value(call_args.app_value, "date")
                        = _normalize_value(call_args.doc_value, "date")
        IN  /\ r.validation_status = "validated" <=> same
            /\ ~same => /\ r.validation_status = "mismatch"
                        /\ r.mismatch_type = "value_difference"
                        /\ r.mismatch_severity = "high"

\* C16 (as stated): for date fields the comparator gives validated iff the
\* values are equal strings after normalization and otherwise
\* mismatch/value_difference/high; form "1990-01-01" against "01/02/1990":
\* the document value normalizes to 1990-02-01 and the result is
\* mismatch/value_difference/high.
C16_DateDayFirst ==
    /\ DateExactOrFail
    /\ DobExample =>
          /\ _normalize_value(call_args.doc_value, "date") = <<"1", "9", "9", "0", "-", "0", "2", "-", "0", "1">>
          /\ call_result[1].validation_status = "mismatch"
          /\ call_result[1].mismatch_severity = "high"

\* C16 (amended): as stated, except that "01/02/1990" normalizes to
\* 1990-01-02: a first number of at most 12 is read as the month, a larger
\* one as the day ("13/01/1990" is 1990-01-13).
C16_DateMonthFirst ==
    /\ DateExactOrFail
    /\ DobExample =>
          /\ _normalize_value(call_args.doc_value, "date") = <<"1", "9", "9", "0", "-", "0", "1", "-", "0", "2">>
          /\ call_result[1].validation_status = "mismatch"
          /\ call_result[1].mismatch_type = "value_difference"
          /\ call_result[1].mismatch_severity = "high"
    /\ (/\ Compared("date")
        /\ call_args.app_value = <<"1", "9", "9", "0", "-", "0", "1", "-", "1", "3">>
        /\ call_args.doc_value = <<"1", "3", "/", "0", "1", "/", "1", "9", "9", "0">>)
          => call_result[1].validation_status = "validated"
    /\ (/\ Compared("date")
        /\ call_args.app_value = <<"1", "9", "9", "0", "-", "0", "1", "-", "0", "1">>
        /\ call_args.doc_value \in {<<"1", "/", "1", "/", "1", "9", "9", "0">>, <<"0", "1", "-", "0", "1", "-", "1", "9", "9", "0">>, <<"1", "9", "9", "0", "-", "1", "-", "1">>, <<"x", " ", "0", "1", "/", "0", "1", "/", "1", "9", "9", "0">>})
          => call_result[1].validation_status = "validated"

\* the example was compared and came out as a high mismatch
C16_Witness ==
    /\ DobExample
    /\ call_result[1] = Comparison("mismatch", "value_difference", "high", 10000, TRUE)

-----------------------------------------------------------------------------
(* One form field against its candidates (SpecField) *)

\* the call of _validate_single_field has returned
FieldValidated == call_result # <<>>

\* similarity of a candidate's value to the form value
Similarity(data) == ratio(call_args.app_value, data.field_value)

\* 0.7 x similarity + 0.3 x confidence, times 1000
WeightedScore(data) == 7 * Similarity(data) + 3 * data.confidence

\* the first candidate, in input order, with the greatest score
FirstMaximal(document_data) ==
    CHOOSE i \in DOMAIN document_data :
        /\ \A j \in DOMAIN document_data :
               WeightedScore(document_data[i]) >= WeightedScore(document_data[j])
        /\ \A j \in 1..(i - 1) :
               WeightedScore(document_data[j]) < WeightedScore(document_data[i])

\* the field's configured similarity threshold, 0.5 when it configures none
ClaimedThreshold(field_name) ==
    IF field_name \in DOMAIN field_configs
    THEN field_configs[field_name].similarity_threshold
    ELSE 50

NoGoodMatch(result) ==
    /\ result.validation_status = "mismatch"
    /\ result.mismatch_type = "value_difference"
    /\ result.mismatch_severity = "high"
    /\ result.discrepancy_percentage = 10000
    /\ result.confidence_score = 0

\* C12: with more than one candidate the selector picks the first candidate
\* of maximal 0.7 x similarity + 0.3 x confidence; the field is compared
\* against that pick when its similarity reaches the field's similarity
\* threshold (0.5 for a field that configures none), and is otherwise
\* mismatch/value_difference/high with 100% discrepancy.
C12_SelectorThreshold ==
    (FieldValidated /\ Len(call_args.document_data) > 1) =>
        LET pick == call_args.document_data[
                        FirstMaximal(call_args.document_data)]
            result == call_result[1]
        IN  IF Similarity(pick) >= ClaimedThreshold(call_args.field_name)
            THEN /\ result.confidence_score = pick.confidence
                 /\ result.document_value = pick.field_value
            ELSE NoGoodMatch(result)

\* C13: a field with no candidate is missing, critical when the field is
\* configured critical and medium otherwise, and the resolver then takes
\* the form value from application_form at 0.8.
C13_MissingSeverity ==
    (FieldValidated /\ call_args.document_data = <<>>) =>
        LET result == call_result[1]
        IN  /\ result.validation_status = "missing"
            /\ result.mismatch_severity =
                   (IF get_field_config(call_args.field_name).critical_field
                    THEN "critical" ELSE "medium")
            /\ _determine_best_value(call_args.app_value, result)
                   = Best(call_args.app_value, "application_form", 80)

-----------------------------------------------------------------------------
(* A validation run on its own (SpecRun) *)

RunReturned == call_result # <<>> /\ "application_data" \in DOMAIN call_args

\* comparing the field raises: its text comparator evaluates
\* similarity >= "exact" on the candidate picked for it
ComparisonRaises(field) ==
    /\ get_field_config(field.field_name).validation_type = "text"
    /\ get_field_config(field.field_name).tolerance = ExactTolerance
    /\ _find_best_document_match(field.app_value, field.document_data,
                                 get_field_config(field.field_name)) # 0

-----------------------------------------------------------------------------
(* The validation status query (SpecStatus) *)

\* the rows of the application the status was asked for, oldest first
RowsAsked ==
    LET OfApplication(r) == r.application_id = call_args.application_id
    IN  SelectSeq(validation_results, OfApplication)

\* C18: once an application has been validated twice or more, its
\* validation status is that of its latest run alone: the total is the
\* number of form fields and the validated, mismatch, missing and flagged
\* counts are the latest run's, while the earlier runs stay stored.
C18_LatestRunStatus ==
    (call_result # <<>> /\ Len(RowsAsked) >= 2) =>
        LET status == call_result[1]
            latest == RowsAsked[Len(RowsAsked)]
        IN  /\ ~status.error
            /\ status.total_results = latest.total_fields
            /\ status.validated_count = latest.validated_fields
            /\ status.mismatch_count = latest.mismatched_fields
            /\ status.missing_count = latest.missing_fields
            /\ status.flagged_count = latest.flagged_for_review

-----------------------------------------------------------------------------
(* The golden data summary (SpecGolden) *)

\* the most recently appended row of a field: the first one in the rows
\* returned, which come newest first
NewestRow(golden_data, field_name) ==
    golden_data[CHOOSE i \in DOMAIN golden_data :
                    /\ golden_data[i].field_name = field_name
                    /\ \A j \in DOMAIN golden_data :
                           golden_data[j].field_name = field_name => i <= j]

\* C19: the golden data summary reports, for each field, the value, source
\* and confidence of the most recently appended row of that field, and
\* counts each field once.
C19_LatestGoldenRow ==
    (call_result # <<>> /\ call_args.golden_data # <<>>) =>
        LET golden_data == call_args.golden_data
            summary == call_result[1]
            names == {golden_data[i].field_name : i \in DOMAIN golden_data}
        IN  /\ summary.status = "completed"
            /\ summary.total_fields = Cardinality(names)
            /\ \A n \in names :
                   LET reported == summary.categories[Category(n)][n]
                       newest == NewestRow(golden_data, n)
                   IN  /\ reported.value = newest.field_value
                       /\ reported.source = newest.data_source
                       /\ reported.confidence = newest.confidence_score

-----------------------------------------------------------------------------
(* Formatting jobs among extraction jobs (SpecBatch) *)

\* C20: a formatting job carries a greater priority number than every
\* extraction job, and within a poll batch a formatting job is claimed only
\* after every extraction job of the batch was claimed.
C20_FormattingAfterExtraction ==
    [][/\ \A f, e \in JobIds :
            (jobs[f].job_type = "formatting" /\ jobs[e].job_type = "extraction")
                => jobs[f].priority > jobs[e].priority
       /\ \A k \in DOMAIN batch :
            (/\ jobs[batch[k]].job_type = "formatting"
             /\ jobs[batch[k]].status = "pending"
             /\ jobs'[batch[k]].status = "processing")
                => \A m \in DOMAIN batch :
                       jobs[batch[m]].job_type = "extraction" => Claimed(m)]_vars

-----------------------------------------------------------------------------
(* Identical values (SpecField) *)

\* C28: a non-empty form value against a single candidate that carries the
\* identical value is validated, with no mismatch severity and no review
\* flag, for every configured field, the fields of tolerance "exact"
\* included.
C28_IdenticalValidated ==
    (/\ FieldValidated
     /\ Len(call_args.document_data) = 1
     /\ call_args.app_value # <<>>
     /\ call_args.document_data[1].field_value = call_args.app_value) =>
        LET result == call_result[1]
        IN  /\ result.validation_status = "validated"
            /\ result.mismatch_severity = "None"
            /\ result.flag_for_review = FALSE

-----------------------------------------------------------------------------
(* Rejection by the selector (SpecField) *)

\* some candidate of the call reaches the field's similarity threshold
SomeCandidateMeets ==
    \E i \in DOMAIN call_args.document_data :
        Similarity(call_args.document_data[i])
            >= get_field_config(call_args.field_name).similarity_threshold

\* C29 as stated: with more than one candidate, "no good match" is reported
\* only when no candidate reaches the field's similarity threshold.
C29_RejectOnlyIfNoneMeets ==
    (FieldValidated /\ Len(call_args.document_data) > 1) =>
        (NoGoodMatch(call_result[1]) => ~SomeCandidateMeets)

\* C29 as amended: with more than one candidate, "no good match" is
\* reported exactly when the first candidate of maximal score is below the
\* field's similarity threshold, whatever the other candidates are;
\* otherwise the field is compared against that candidate.
C29_RejectIffBestBelow ==
    (FieldValidated /\ Len(call_args.document_data) > 1) =>
        LET pick == call_args.document_data[
                        FirstMaximal(call_args.document_data)]
            result == call_result[1]
        IN  /\ NoGoodMatch(result) <=>
                   Similarity(pick)
                       < get_field_config(call_args.field_name)
                             .similarity_threshold
            /\ ~NoGoodMatch(result) =>
                   result.confidence_score = pick.confidence

\* a candidate reaches the threshold, and the field still has no good match
C29_Witness ==
    /\ FieldValidated
    /\ Len(call_args.document_data) > 1
    /\ SomeCandidateMeets
    /\ NoGoodMatch(call_result[1])

-----------------------------------------------------------------------------
(* The stored summary row of a run (SpecRun) *)

\* C30: the summary row stored at the end of a run is flagged for review
\* whenever a field result of the run is, and its per-severity counts are
\* the numbers of field results of each severity.
C30_SummaryFlagged ==
    RunReturned =>
        LET results == call_result[1].field_results
            row == validation_results[Len(validation_results)]
            Count(sev) == Cardinality({i \in DOMAIN results :
                                         results[i].mismatch_severity = sev})
        IN  /\ (\E i \in DOMAIN results : results[i].flag_for_review)
                   => row.flag_for_review
            /\ row.critical_mismatches = Count("critical")
            /\ row.high_mismatches = Count("high")
            /\ row.medium_mismatches = Count("medium")
            /\ row.low_mismatches = Count("low")

-----------------------------------------------------------------------------
(* One poll loop (Spec) *)

\* C25: with one poll loop no job reaches a stage handler twice in one
\* pending period: the jobs of a batch are distinct, a job is set to
\* processing only from pending and while no task holds it, and the cycle
\* ends, letting the next fetch happen, only when every task of the batch is
\* done and every job of the batch has left pending and processing.
C25_OneHandlerPerPeriod ==
    [][/\ (loop = "fetch" /\ loop' = "gather") =>
            \A k, m \in DOMAIN batch' : batch'[k] = batch'[m] => k = m
       /\ \A id \in JobIds :
            (jobs[id].status # "processing" /\ jobs'[id].status = "processing") =>
                /\ jobs[id].status = "pending"
                /\ Cardinality({k \in DOMAIN tasks' :
                                   batch'[k] = id /\ tasks'[k].st = "running"}) = 1
                /\ \A k \in DOMAIN tasks : batch[k] = id => tasks[k].st = "waiting"
       /\ (loop = "gather" /\ loop' = "sleep") =>
            \A k \in DOMAIN batch :
                /\ tasks[k].st = "done"
                /\ jobs[batch[k]].status \in {"completed", "failed"}
       /\ (loop # "fetch" /\ loop' = "fetch") =>
            /\ tasks = <<>>
            /\ \A id \in JobIds : jobs[id].status # "processing"]_vars

\* a second batch is being handled while a job of an earlier batch is
\* completed
C25_Witness ==
    /\ loop = "gather"
    /\ \E k \in DOMAIN tasks : tasks[k].st = "running"
    /\ \E id \in JobIds : jobs[id].status = "completed" /\ id \notin BatchIds


\* the handler of task k returns or raises in this step
HandlerEnds(k) ==
    /\ k \in DOMAIN tasks /\ k \in DOMAIN tasks'
    /\ tasks[k].st = "running"
    /\ tasks'[k].st = "returned"

\* the jobs of one type and application, and those among them that are
\* processing or completed
JobsOf(job_type, application_id) ==
    {id \in JobIds : /\ jobs[id].job_type = job_type
                     /\ jobs[id].application_id = application_id}
NotFailedOf(job_type, application_id) ==
    {id \in JobIds : /\ jobs[id].job_type = job_type
                     /\ jobs[id].application_id = application_id
                     /\ jobs[id].status \in {"processing", "completed"}}

\* the step appends a pending job of the type for the application
Enqueues(job_type, application_id) ==
    /\ Len(jobs') = Len(jobs) + 1
    /\ jobs'[Len(jobs')].job_type = job_type
    /\ jobs'[Len(jobs')].status = "pending"
    /\ jobs'[Len(jobs')].application_id = application_id

C22_FormattingDispatched ==
    /\ [][\A k \in 1..BatchLimit :
             (HandlerEnds(k) /\ jobs[batch[k]].job_type = "formatting") =>
                 tasks'[k].kind = "result"]_vars
    /\ [](\A id \in JobIds :
             (jobs[id].job_type = "formatting" /\ jobs[id].status = "failed") =>
                 jobs[id].error_message # "\"" \o ErrAttribute \o "\"")

-----------------------------------------------------------------------------
(* The upload path (SpecUpload) *)

\* the extraction jobs of a document
ExtractionJobsOf(document_id) ==
    {id \in JobIds : /\ jobs[id].job_type = "extraction"
                     /\ jobs[id].document_id = document_id}

\* C26: every uploaded document has exactly one extraction job, and none
\* has more than one, whatever the processor has done to the document when
\* background processing starts and whatever the application had before.
C26_OneExtractionJobPerDocument ==
    \A d \in DOMAIN documents : Cardinality(ExtractionJobsOf(d)) = 1

\* the validation stage of the application ends in this step
ValidationRan(a) ==
    \E id \in JobIds :
        /\ jobs[id].job_type = "validation"
        /\ jobs[id].application_id = a
        /\ jobs[id].status # "completed"
        /\ jobs'[id].status = "completed"

\* C21: an application is created as document_upload, is processing once
\* a document of it was uploaded, has left processing for validation,
\* formatting or needs_review when its validation stage has run, and its
\* status only ever moves along document_upload -> processing ->
\* validation -> (formatting | needs_review).
C21_ApplicationStatusMachine ==
    [][\A a \in Apps :
          /\ (a \notin DOMAIN applications /\ a \in DOMAIN applications') =>
                applications'[a] = "document_upload"
          /\ (a \in DOMAIN applications /\ applications'[a] # applications[a]) =>
                <<applications[a], applications'[a]>> \in
                    {<<"document_upload", "processing">>,
                     <<"processing", "validation">>,
                     <<"validation", "formatting">>,
                     <<"validation", "needs_review">>}
          /\ (\E d \in DOMAIN documents' :
                 d \notin DOMAIN documents /\ documents'[d].application_id = a) =>
                applications'[a] = "processing"
          /\ ValidationRan(a) =>
                applications'[a] \in {"validation", "formatting", "needs_review"}]_vars

-----------------------------------------------------------------------------
(* Two schedulers on one table (SpecTwoSchedulers) *)

\* the second scheduler begins a cycle with a batch in this step
PollerFetches(p) ==
    /\ p \in DOMAIN pollers /\ p \in DOMAIN pollers'
    /\ pollers[p].loop = "fetch"
    /\ pollers'[p].loop = "gather"

\* task i of the second scheduler passes its claim in this step
PollerClaims(p, i) ==
    /\ p \in DOMAIN pollers /\ p \in DOMAIN pollers'
    /\ i \in DOMAIN pollers[p].tasks /\ i \in DOMAIN pollers'[p].tasks
    /\ pollers[p].tasks[i].st = "waiting"
    /\ pollers'[p].tasks[i].st = "running"

\* C23: nothing keeps two schedulers on one table apart: the fetch of either
\* returns the pending rows, the first ten of them, whether or not the
\* other holds them in its batch, and a task's claim sets its job to
\* processing without a condition on the row, so that both can fetch the
\* same pending job, set it to processing and run its handler.
C23_NoExclusionBetweenSchedulers ==
    [][/\ (loop = "fetch" /\ loop' = "gather") =>
            batch' = SubSeq(get_pending_jobs(jobs), 1,
                            Min(Len(get_pending_jobs(jobs)), BatchLimit))
       /\ \A p \in DOMAIN pollers :
            /\ PollerFetches(p) =>
                  pollers'[p].batch =
                      SubSeq(get_pending_jobs(jobs), 1,
                             Min(Len(get_pending_jobs(jobs)), BatchLimit))
            /\ \A i \in 1..BatchLimit : PollerClaims(p, i) =>
                  /\ jobs[pollers[p].batch[i]].status \in {"pending", "processing",
                                                            "completed", "failed"}
                  /\ jobs'[pollers[p].batch[i]].status = "processing"]_vars

\* both schedulers fetched the same job, each set it to processing, and the
\* handler of each is running on it
C23_Witness ==
    \E p \in DOMAIN pollers, i \in 1..BatchLimit, k \in DOMAIN tasks :
        /\ i \in DOMAIN pollers[p].tasks
        /\ pollers[p].service = "other"
        /\ pollers[p].batch[i] = batch[k]
        /\ pollers[p].tasks[i].st = "running"
        /\ tasks[k].st = "running"
        /\ jobs[batch[k]].status = "processing"

-----------------------------------------------------------------------------
(* Start and stop of one service (SpecRestart) *)

\* the poll loops of the service that have not ended
LiveLoops ==
    (IF loop \in {"fetch", "gather", "sleep"} THEN {0} ELSE {})
        \cup {p \in DOMAIN pollers : pollers[p].loop \in {"fetch", "gather", "sleep"}}

\* C24: whatever start and stop calls were made, a poll loop of the service
\* goes from its sleep to a new poll cycle only when it is the one loop of
\* the service that has not ended, and no new loop is started while the
\* service is running; so never more than three handlers are in flight.
C24_OneLoopPolls ==
    /\ [][/\ (loop = "sleep" /\ loop' = "fetch") => LiveLoops = {0}
          /\ \A p \in DOMAIN pollers :
                (p \in DOMAIN pollers' /\ pollers[p].loop = "sleep"
                                       /\ pollers'[p].loop = "fetch") =>
                    LiveLoops = {p}
          /\ Len(pollers') > Len(pollers) => ~is_running]_vars
    /\ [](Cardinality({k \in DOMAIN tasks : InFlight(tasks[k])})
            + Cardinality({<<p, i>> \in (DOMAIN pollers) \X (1..BatchLimit) :
                             /\ i \in DOMAIN pollers[p].tasks
                             /\ InFlight(pollers[p].tasks[i])})
            <= MaxConcurrentJobs)

=============================================================================
